---- MODULE Spec2Model ----
(***************************************************************************)
(* A model of the Adventure command engine (adventure/engine/commands.py)  *)
(* over the mutable GameState of adventure/engine/state.py and an          *)
(* immutable World in the shape adventure/engine/loader.py produces.       *)
(*                                                                         *)
(* A response text is modelled as the sequence of its paragraphs: the      *)
(* Python code joins paragraphs with a blank line ("\n\n"), which is       *)
(* sequence concatenation here.                                            *)
(***************************************************************************)
EXTENDS Integers, Sequences, FiniteSets, TLC

VARIABLES state, input, response, death, score, saved, loader, requests

vars == <<state, input, response, death, score, saved, loader, requests>>

(***************************************************************************)
(* Program constants (state.py, commands.py)                               *)
(***************************************************************************)
CARRIED == 0
DESTROYED == -1
START_ROOM == 1

KEYS == 1
LAMP == 2
GRATE == 3
CAGE == 4
ROD == 5
ROD2 == 6
BIRD == 8
DOOR == 9
SNAKE == 11
FISSURE == 12
CLAM == 14
OYSTER == 15
MAGAZINE == 16
FOOD == 19
BOTTLE == 20
WATER == 21
OIL == 22
DRAGON == 31
TROLL == 33
BEAR == 35
CHASM == 32
NUGGET == 50
SILVER == 52
CHEST == 55
EGGS == 56
EMERALD == 59
CHAIN == 64

LAMP_LIFE == 330
CHEST_ROOM == 64
CLOCK1_START == 15
CLOCK2_START == 30
MAX_DEATHS == 3
TREASURES_NEEDED == 15
DEEP_ROOM == 15
Y2_ROOM == 33
BUILDING == 3
REPOSITORY_NE == 115
REPOSITORY_SW == 116
ENDGAME_LAMP_TURNS == 50
MAX_CARRIED == 7
DARK_DEATH_PERCENT == 35

BACK_VERB == 8
LOOK_VERB == 57
FORCED_VERB == 1

DwarfStartLocations == <<19, 27, 33, 44, 64>>

(***************************************************************************)
(* Bounds of the model                                                     *)
(***************************************************************************)
\* handle_command is called at most MaxTurns times in a game of Spec.
MaxTurns == 4
\* ... and at most MaxClosingTurns times in SpecClosing, which has to run
\* through both cave-closing countdowns (15 + 30 calls).
MaxClosingTurns == 48
\* calls of an endgame run, and the calls left before the cave closes in it
MaxEndTurns == 6
MaxClockLeft == 3
MaxSessionTurns == 3
MaxLines == 3
MaxVerbTurns == 3
MaxObjectLines == 4
MaxTravelTurns == 4
MaxFeeTurns == 4
MaxRows == 2
MaxFlagLines == 4
MaxRequests == 2
MaxCarryTurns == 3
\* A game that starts in mid-play starts at a multiple of TurnBase turns, so
\* that the calls made since the start are turns % TurnBase.
TurnBase == 1000

(***************************************************************************)
(* Dictionaries: a Python dict is a function whose DOMAIN is its key set.  *)
(***************************************************************************)
Has(d, k) == k \in DOMAIN d

\* d[k] = v
Put(d, k, v) == [x \in (DOMAIN d) \cup {k} |-> IF x = k THEN v ELSE d[x]]

\* d.get(k, dflt)
Get(d, k, dflt) == IF k \in DOMAIN d THEN d[k] ELSE dflt

\* d.get(k) == v, where a missing key gives None and None equals no integer
GetIs(d, k, v) == k \in DOMAIN d /\ d[k] = v

(***************************************************************************)
(* The World (world.py): rooms with their travel tables, objects,          *)
(* vocabulary, messages and hints, in the form load_world builds them.     *)
(* It is a small cave: the building and the road outside it, the debris    *)
(* room, Y2, a low passage with a stream below it and an unclimbable dome  *)
(* above it, the plover room, and the two ends of the repository.          *)
(***************************************************************************)
NoLiquid == 0

Unconditional == <<"none">>
Carrying(o) == <<"carrying", o>>
PropNotEqual(o, v) == <<"prop!=", o, v>>
PercentChance(p) == <<"%", p>>
NotDwarf == <<"not_dwarf">>
CarryingOrInRoomWith(o) == <<"carrying_or_in_room_with", o>>

\* Move(verbs, condition, destination, is_forced)
Move(verbs, cond, dest, forced) ==
    [verbs |-> verbs, condition |-> cond, destination |-> dest, is_forced |-> forced]

\* Motion-verb numbers of the vocabulary
V_OUT == 11
V_IN == 19
V_UP == 29
V_NORTH == 45
V_SOUTH == 46
V_NE == 47
V_SW == 49
V_XYZZY == 62
V_PLUGH == 65
V_PLOVER == 71

Room(long, short, travel, light, liquid) ==
    [long_description |-> long, short_description |-> short,
     travel_table |-> travel, is_light |-> light, liquid |-> liquid]

Rooms ==
    (1 :> Room("You are standing at the end of a road before a small brick building.",
               "You're at end of road again.",
               << Move({V_IN}, Unconditional, 3, FALSE) >>, TRUE, NoLiquid))
 @@ (3 :> Room("You are inside a building, a well house for a large spring.",
               "You're inside building.",
               << Move({V_OUT}, Unconditional, 1, FALSE),
                  Move({V_XYZZY}, Unconditional, 11, FALSE),
                  Move({V_PLUGH}, Unconditional, 33, FALSE) >>, TRUE, WATER))
 @@ (8 :> Room("You are in a 20-foot depression floored with bare dirt.",
               "You're outside grate.",
               << Move({V_IN}, PropNotEqual(GRATE, 0), 9, FALSE),
                  Move({V_IN}, Unconditional, -93, FALSE) >>, TRUE, NoLiquid))
 @@ (9 :> Room("You are in a small chamber beneath a 3x3 steel grate to the surface.",
               "You're below the grate.",
               \* the second row repeats the first verb of the first and so
               \* takes over its verbs (_parse_section3's last_travel)
               << Move({V_OUT, V_UP}, PropNotEqual(GRATE, 0), 8, FALSE),
                  Move({V_OUT, V_UP}, Unconditional, -93, FALSE) >>, TRUE, NoLiquid))
 @@ (11 :> Room("You are in a debris room filled with stuff washed in from the surface.",
                "You're in debris room.",
                << Move({V_XYZZY}, Unconditional, 3, FALSE) >>, FALSE, NoLiquid))
 @@ (22 :> Room("The dome is unclimbable.", "",
                << Move({FORCED_VERB}, Unconditional, 28, TRUE) >>, FALSE, NoLiquid))
 @@ (28 :> Room("You are in a low N/S passage at a hole in the floor.",
                "You're in N/S passage.",
                << Move({V_NORTH}, Unconditional, 33, FALSE),
                   Move({V_SOUTH}, Unconditional, 38, FALSE),
                   Move({V_UP}, Unconditional, 22, FALSE) >>, FALSE, NoLiquid))
 @@ (33 :> Room("You are in a large room, with a passage to the south.",
                "You're at Y2.",
                << Move({V_PLUGH}, Unconditional, 3, FALSE),
                   Move({V_SOUTH}, Unconditional, 28, FALSE),
                   Move({V_PLOVER}, Unconditional, 100, FALSE) >>, FALSE, NoLiquid))
 @@ (38 :> Room("You are at the bottom of the pit with a small stream.",
                "You're at bottom of pit.",
                << Move({V_NORTH}, Unconditional, 28, FALSE) >>, FALSE, WATER))
 @@ (100 :> Room("You're in a small chamber lit by an eerie green light.",
                 "You're in plover room.",
                 << Move({V_PLOVER}, Carrying(EMERALD), 302, FALSE),
                    Move({V_PLOVER}, Unconditional, 33, FALSE) >>, TRUE, NoLiquid))
 @@ (115 :> Room("You are at the northeast end of an immense room.",
                 "You're at NE end.",
                 << Move({V_SW}, Unconditional, 116, FALSE) >>, TRUE, NoLiquid))
 @@ (116 :> Room("You are at the southwest end of the repository.",
                 "You're at SW end.",
                 << Move({V_NE}, Unconditional, 115, FALSE) >>, TRUE, NoLiquid))

RoomIds == DOMAIN Rooms

\* Obj(names, initial_rooms, is_fixed); is_treasure is set from the number
InventoryMessage(n) ==
    CASE n = KEYS -> "Set of keys"
      [] n = LAMP -> "Brass lantern"
      [] n = ROD -> "Black rod"
      [] n = BOTTLE -> "Small bottle"
      [] n = WATER -> "Water in the bottle"
      [] n = 52 -> "Bars of silver"
      [] OTHER -> ""

Obj(n, names, rooms, fixed) ==
    [names |-> names, inventory_message |-> InventoryMessage(n),
     initial_rooms |-> rooms, is_fixed |-> fixed,
     is_treasure |-> (n >= NUGGET)]

Objects ==
    (KEYS :> Obj(KEYS, <<"keys">>, <<3>>, FALSE))
 @@ (LAMP :> Obj(LAMP, <<"lamp">>, <<3>>, FALSE))
 @@ (GRATE :> Obj(GRATE, <<"grate">>, <<8, 9>>, TRUE))
 @@ (CAGE :> Obj(CAGE, <<"cage">>, <<10>>, FALSE))
 @@ (ROD :> Obj(ROD, <<"rod">>, <<11>>, FALSE))
 @@ (ROD2 :> Obj(ROD2, <<"rod">>, <<>>, FALSE))
 @@ (BIRD :> Obj(BIRD, <<"bird">>, <<13>>, FALSE))
 @@ (DOOR :> Obj(DOOR, <<"door">>, <<109>>, TRUE))
 @@ (SNAKE :> Obj(SNAKE, <<"snake">>, <<19>>, TRUE))
 @@ (FISSURE :> Obj(FISSURE, <<"fissure">>, <<17, 27>>, TRUE))
 @@ (CLAM :> Obj(CLAM, <<"clam">>, <<103>>, FALSE))
 @@ (OYSTER :> Obj(OYSTER, <<"oyster">>, <<>>, FALSE))
 @@ (MAGAZINE :> Obj(MAGAZINE, <<"magazine">>, <<106>>, FALSE))
 @@ (FOOD :> Obj(FOOD, <<"food">>, <<3>>, FALSE))
 @@ (BOTTLE :> Obj(BOTTLE, <<"bottle">>, <<3>>, FALSE))
 @@ (WATER :> Obj(WATER, <<"water">>, <<>>, FALSE))
 @@ (OIL :> Obj(OIL, <<"oil">>, <<>>, FALSE))
 @@ (DRAGON :> Obj(DRAGON, <<"dragon">>, <<119, 121>>, TRUE))
 @@ (TROLL :> Obj(TROLL, <<"troll">>, <<117, 122>>, TRUE))
 @@ (BEAR :> Obj(BEAR, <<"bear">>, <<130>>, TRUE))
 @@ (NUGGET :> Obj(NUGGET, <<"gold">>, <<18>>, FALSE))
 @@ (51 :> Obj(51, <<"diamonds">>, <<27>>, FALSE))
 @@ (52 :> Obj(52, <<"silver">>, <<28>>, FALSE))
 @@ (53 :> Obj(53, <<"jewelry">>, <<29>>, FALSE))
 @@ (54 :> Obj(54, <<"coins">>, <<30>>, FALSE))
 @@ (CHEST :> Obj(CHEST, <<"chest">>, <<>>, FALSE))
 @@ (EGGS :> Obj(EGGS, <<"eggs">>, <<92>>, FALSE))
 @@ (57 :> Obj(57, <<"trident">>, <<95>>, FALSE))
 @@ (58 :> Obj(58, <<"vase">>, <<97>>, FALSE))
 @@ (EMERALD :> Obj(EMERALD, <<"emerald">>, <<100>>, FALSE))
 @@ (60 :> Obj(60, <<"pyramid">>, <<101>>, FALSE))
 @@ (61 :> Obj(61, <<"pearl">>, <<>>, FALSE))
 @@ (62 :> Obj(62, <<"rug">>, <<119>>, TRUE))
 @@ (63 :> Obj(63, <<"spices">>, <<127>>, FALSE))
 @@ (CHAIN :> Obj(CHAIN, <<"chain">>, <<130>>, TRUE))

ObjIds == DOMAIN Objects

TreasureIds == {o \in ObjIds : Objects[o].is_treasure}

\* world.object_names: the full and the 5-character form of every noun
ObjectNames ==
    [w \in {"keys", "lamp", "rod", "bird", "bottl", "bottle", "water", "bear",
            "silve", "silver", "emera", "emerald", "grate", "door", "snake",
            "clam", "food", "drago", "dragon", "troll", "chain"} |->
        CASE w = "keys" -> KEYS
          [] w = "lamp" -> LAMP
          [] w = "rod" -> ROD2      \* the later of the two "rod" lines
          [] w = "bird" -> BIRD
          [] w \in {"bottl", "bottle"} -> BOTTLE
          [] w = "water" -> WATER
          [] w = "bear" -> BEAR
          [] w = "grate" -> GRATE
          [] w = "door" -> DOOR
          [] w = "snake" -> SNAKE
          [] w = "clam" -> CLAM
          [] w = "food" -> FOOD
          [] w \in {"drago", "dragon"} -> DRAGON
          [] w = "troll" -> TROLL
          [] w = "chain" -> CHAIN
          [] w \in {"silve", "silver"} -> 52
          [] w \in {"emera", "emerald"} -> EMERALD]

Word(kind, number) == [kind |-> kind, number |-> number]

\* world.vocabulary, keyed by the full word text
Vocabulary ==
    [w \in {"out", "in", "u", "n", "s", "ne", "sw", "xyzzy", "plugh", "plover",
            "back", "look", "keys", "lamp", "inventory", "on"} |->
        CASE w = "out" -> Word("motion", V_OUT)
          [] w = "in" -> Word("motion", V_IN)
          [] w = "u" -> Word("motion", V_UP)
          [] w = "n" -> Word("motion", V_NORTH)
          [] w = "s" -> Word("motion", V_SOUTH)
          [] w = "ne" -> Word("motion", V_NE)
          [] w = "sw" -> Word("motion", V_SW)
          [] w = "xyzzy" -> Word("motion", V_XYZZY)
          [] w = "plugh" -> Word("motion", V_PLUGH)
          [] w = "plover" -> Word("motion", V_PLOVER)
          [] w = "back" -> Word("motion", BACK_VERB)
          [] w = "look" -> Word("motion", LOOK_VERB)
          [] w = "keys" -> Word("noun", 1001)
          [] w = "lamp" -> Word("noun", 1002)
          [] w = "inventory" -> Word("verb", 2020)
          [] w = "on" -> Word("verb", 2007)]

\* loader.LONG_WORDS: 5-character prefix -> full word
LONG_WORDS ==
    [w \in {"plove", "inven", "bottl", "silve", "emera"} |->
        CASE w = "plove" -> "plover"
          [] w = "inven" -> "inventory"
          [] w = "bottl" -> "bottle"
          [] w = "silve" -> "silver"
          [] w = "emera" -> "emerald"]

\* world.messages
Messages ==
    (93 :> "You can't go through a locked steel grate!")
 @@ (129 :> "A sepulchral voice reverberating through the cave, says, \"Cave closing soon.\"")
 @@ (132 :> "The sepulchral voice intones, \"The cave is now closed.\"")
 @@ (133 :> "There is a loud explosion, and a twenty-foot hole appears in the far wall.")
 @@ (134 :> "There is a loud explosion, and a twenty-foot hole appears in the far wall, burying the snakes in the rubble.")
 @@ (135 :> "There is a loud explosion, and you are suddenly splashed across the walls of the room.")

\* world.hints: hint number -> penalty
HintPenalty == (4 :> 2) @@ (7 :> 4) @@ (8 :> 5)

(***************************************************************************)
(* GameState (state.py). The fields no command reads or writes (score,     *)
(* panic, knife_location, hint_turns, treasures_found, said_west,          *)
(* treasures_not_found) are left out.                                      *)
(***************************************************************************)
NewGameState ==
    [current_room |-> START_ROOM,
     old_room |-> START_ROOM,
     old_old_room |-> START_ROOM,
     object_locations |->
        [o \in ObjIds |-> IF Len(Objects[o].initial_rooms) > 0
                          THEN Objects[o].initial_rooms[1]
                          ELSE DESTROYED],
     object_props |-> (GRATE :> 0) @@ (LAMP :> 0),
     turns |-> 0,
     lamp_turns |-> LAMP_LIFE,
     lamp_on |-> FALSE,
     clock1 |-> CLOCK1_START,
     clock2 |-> CLOCK2_START,
     is_closing |-> FALSE,
     is_closed |-> FALSE,
     deaths |-> 0,
     max_deaths |-> MAX_DEATHS,
     visited_rooms |-> {},
     is_finished |-> FALSE,
     dwarf_stage |-> 0,
     dwarf_locations |-> DwarfStartLocations,
     dwarf_old_locations |-> DwarfStartLocations,
     dwarf_seen |-> [i \in 1..Len(DwarfStartLocations) |-> FALSE],
     dwarf_killed |-> 0,
     pirate_location |-> CHEST_ROOM,
     pirate_old_location |-> CHEST_ROOM,
     pirate_seen |-> FALSE,
     hints_given |-> {},
     gave_up |-> FALSE,
     detail_level |-> 0,
     bear_tame |-> FALSE,
     foobar |-> 0,
     bonus |-> 0]

(***************************************************************************)
(* Response texts                                                          *)
(***************************************************************************)
\* Python's None, for a handler that returns no text
None == <<>>
\* the empty string: one empty paragraph
Empty == <<"">>
\* Python truthiness of an optional text
Truthy(out) == out # None /\ out # Empty

MSG_RAN_OUT == "Your lamp has run out of power."
MSG_PITCH_DARK == "It is now pitch dark. If you proceed you will likely fall into a pit."
MSG_TOO_DARK == "It's too dark to see!"
MSG_DONT_UNDERSTAND == "I don't understand that command."
MSG_PARDON == "I beg your pardon?"
MSG_CANT_GO == "You can't go that way."
MSG_DIED == "You have died."
MSG_GAME_OVER == "You have used all your resurrections. The game is over."
MSG_RESURRECT == "I seem to recall you owe me a resurrection. Very well, you're alive again."
MSG_OK == "OK."
\* what stands for the text of an uncaught RecursionError
RAISED == "<RecursionError>"

\* An outcome of a handler: the state it leaves, the text it returns, and
\* (for the death bookkeeping) the state in which _cmd_die was entered.
Out(st, out) == [st |-> st, out |-> out, died |-> <<>>]

\* prefix + "\n\n" + (the text of each outcome)
Prefixed(prefix, outcomes) == {[o EXCEPT !.out = prefix \o @] : o \in outcomes}

(***************************************************************************)
(* Location predicates                                                     *)
(***************************************************************************)
IsHere(s, obj_n) ==
    LET loc == Get(s.object_locations, obj_n, DESTROYED)
    IN  loc = s.current_room \/ loc = CARRIED

IsCarrying(s, obj_n) == GetIs(s.object_locations, obj_n, CARRIED)

IsAt(s, obj_n, room) == GetIs(s.object_locations, obj_n, room)

IsDark(s) ==
    /\ ~(s.current_room \in RoomIds /\ Rooms[s.current_room].is_light)
    /\ ~(s.lamp_on /\ IsHere(s, LAMP))

CarriedCount(s) ==
    Cardinality({o \in DOMAIN s.object_locations : s.object_locations[o] = CARRIED})

\* the "drop everything carried in room r" loop of _cmd_die and _close_cave
\* Variant: nothing is dropped.
DropNothingAt(s, r) == s.object_locations

DropAllAt(s, r) ==
    [o \in DOMAIN s.object_locations |->
        IF s.object_locations[o] = CARRIED THEN r ELSE s.object_locations[o]]

(***************************************************************************)
(* Scoring                                                                 *)
(***************************************************************************)
TreasureValue(obj_id) ==
    IF obj_id < CHEST THEN 12 ELSE IF obj_id = CHEST THEN 14 ELSE 16

RECURSIVE SumOver(_, _)
SumOver(S, f) ==
    IF S = {} THEN 0
    ELSE LET x == CHOOSE y \in S : TRUE IN f[x] + SumOver(S \ {x}, f)

\* Variant: a deposited treasure earns its full value on top of the 2 for
\* finding it.
TreasureScoreFull(s, obj_id) ==
    (IF Has(s.object_props, obj_id) THEN 2 ELSE 0)
    + (IF /\ GetIs(s.object_locations, obj_id, BUILDING)
          /\ Get(s.object_props, obj_id, -1) = 0
       THEN TreasureValue(obj_id) ELSE 0)

TreasureScore(s, obj_id) ==
    (IF Has(s.object_props, obj_id) THEN 2 ELSE 0)
    + (IF /\ GetIs(s.object_locations, obj_id, BUILDING)
          /\ Get(s.object_props, obj_id, -1) = 0
       THEN TreasureValue(obj_id) - 2 ELSE 0)

ScoreTreasures(s) ==
    SumOver(TreasureIds, [o \in TreasureIds |-> TreasureScore(s, o)])

BonusScore(bonus) ==
    CASE bonus = 133 -> 45
      [] bonus = 134 -> 30
      [] bonus = 135 -> 25
      [] OTHER -> 10

HintPenalties(s) ==
    LET known == s.hints_given \cap DOMAIN HintPenalty
    IN  SumOver(known, [h \in known |-> HintPenalty[h]])

\* Variant: the 25 points for the closing cave are kept once it is closed.
CalculateScoreClosingKept(s) ==
    2 + ScoreTreasures(s)
    + (s.max_deaths - s.deaths) * 10
    + (IF ~s.gave_up THEN 4 ELSE 0)
    + (IF s.dwarf_stage > 0 THEN 25 ELSE 0)
    + (IF s.is_closing \/ s.is_closed THEN 25 ELSE 0)
    + (IF s.is_closed THEN 25 + BonusScore(s.bonus) ELSE 0)
    + (IF GetIs(s.object_locations, MAGAZINE, 108) THEN 1 ELSE 0)
    - HintPenalties(s)

CalculateScore(s) ==
    2 + ScoreTreasures(s)
    + (s.max_deaths - s.deaths) * 10
    + (IF ~s.gave_up THEN 4 ELSE 0)
    + (IF s.dwarf_stage > 0 THEN 25 ELSE 0)
    + (IF s.is_closing THEN 25 ELSE 0)
    + (IF s.is_closed THEN 25 + BonusScore(s.bonus) ELSE 0)
    + (IF GetIs(s.object_locations, MAGAZINE, 108) THEN 1 ELSE 0)
    - HintPenalties(s)

(***************************************************************************)
(* The per-turn ticks                                                      *)
(***************************************************************************)
Tick(st, msg) == [st |-> st, msg |-> msg]

\* Variant: the lamp runs out without the warning about the dark.
TickLampSilent(s) ==
    IF ~s.lamp_on THEN Tick(s, None)
    ELSE LET s1 == [s EXCEPT !.lamp_turns = @ - 1] IN
         IF s1.lamp_turns > 0 THEN Tick(s1, None)
         ELSE Tick([s1 EXCEPT !.lamp_on = FALSE, !.object_props = Put(@, LAMP, 0)],
                   <<MSG_RAN_OUT>>)

TickLamp(s) ==
    IF ~s.lamp_on THEN Tick(s, None)
    ELSE LET s1 == [s EXCEPT !.lamp_turns = @ - 1] IN
         IF s1.lamp_turns > 0 THEN Tick(s1, None)
         ELSE LET s2 == [s1 EXCEPT !.lamp_on = FALSE,
                                   !.object_props = Put(@, LAMP, 0)] IN
              IF IsDark(s2) THEN Tick(s2, <<MSG_RAN_OUT, MSG_PITCH_DARK>>)
              ELSE Tick(s2, <<MSG_RAN_OUT>>)

CountTreasuresFound(s) ==
    Cardinality({o \in ObjIds : Objects[o].is_treasure /\ Has(s.object_props, o)})

StartClosing(s) ==
    Tick([s EXCEPT !.is_closing = TRUE,
                   !.object_props = Put(Put(@, GRATE, 0), FISSURE, 0),
                   !.object_locations = Put(Put(@, TROLL, DESTROYED), BEAR, DESTROYED),
                   !.dwarf_locations = <<>>,
                   !.pirate_location = 0],
         <<Get(Messages, 129, "A sepulchral voice says, \"Cave closing soon.\"")>>)

\* Variant: the cave closes without taking anything out of the player's hands.
CloseCaveKeeps(s) ==
    LET withLamp == Put(s.object_locations, LAMP, REPOSITORY_NE)
        placed == Put(Put(Put(withLamp, GRATE, REPOSITORY_SW), SNAKE, REPOSITORY_SW),
                      BIRD, REPOSITORY_SW)
    IN  Tick([s EXCEPT !.is_closed = TRUE,
                       !.is_closing = FALSE,
                       !.object_locations = placed,
                       !.object_props = Put(@, LAMP, 1),
                       !.lamp_on = TRUE,
                       !.lamp_turns = ENDGAME_LAMP_TURNS,
                       !.old_room = s.current_room,
                       !.current_room = REPOSITORY_NE,
                       !.visited_rooms = @ \cup {REPOSITORY_NE}],
             <<Get(Messages, 132, "The cave is now closed.")>>)

\* Variant: the cave closes and is_closing is left as it was.
CloseCaveStillClosing(s) ==
    LET dropped == DropAllAt(s, s.current_room)
        withLamp == Put(dropped, LAMP, REPOSITORY_NE)
        withRod == IF Has(withLamp, ROD2) THEN Put(withLamp, ROD2, REPOSITORY_NE)
                   ELSE withLamp
        placed == Put(Put(Put(withRod, GRATE, REPOSITORY_SW), SNAKE, REPOSITORY_SW),
                      BIRD, REPOSITORY_SW)
    IN  Tick([s EXCEPT !.is_closed = TRUE,
                       !.object_locations = placed,
                       !.object_props = Put(@, LAMP, 1),
                       !.lamp_on = TRUE,
                       !.lamp_turns = ENDGAME_LAMP_TURNS,
                       !.old_room = s.current_room,
                       !.current_room = REPOSITORY_NE,
                       !.visited_rooms = @ \cup {REPOSITORY_NE}],
             <<Get(Messages, 132, "The cave is now closed.")>>)

CloseCave(s) ==
    LET dropped == DropAllAt(s, s.current_room)
        withLamp == Put(dropped, LAMP, REPOSITORY_NE)
        withRod == IF Has(withLamp, ROD2) THEN Put(withLamp, ROD2, REPOSITORY_NE)
                   ELSE withLamp
        placed == Put(Put(Put(withRod, GRATE, REPOSITORY_SW), SNAKE, REPOSITORY_SW),
                      BIRD, REPOSITORY_SW)
    IN  Tick([s EXCEPT !.is_closed = TRUE,
                       !.is_closing = FALSE,
                       !.object_locations = placed,
                       !.object_props = Put(@, LAMP, 1),
                       !.lamp_on = TRUE,
                       !.lamp_turns = ENDGAME_LAMP_TURNS,
                       !.old_room = s.current_room,
                       !.current_room = REPOSITORY_NE,
                       !.visited_rooms = @ \cup {REPOSITORY_NE}],
             <<Get(Messages, 132, "The cave is now closed.")>>)

\* Variant: Y2 counts as a deep room.
AnyDeepRoom(room) == ~(room < DEEP_ROOM)

\* the room test of _tick_closing: deep enough and not Y2
QualifyingRoom(room) == ~(room < DEEP_ROOM \/ room = Y2_ROOM)

TickClosing(s) ==
    IF s.is_closed \/ s.is_finished THEN Tick(s, None)
    ELSE IF ~s.is_closing THEN
        IF CountTreasuresFound(s) < TREASURES_NEEDED THEN Tick(s, None)
        ELSE IF ~QualifyingRoom(s.current_room) THEN Tick(s, None)
        ELSE LET s1 == [s EXCEPT !.clock1 = @ - 1] IN
             IF s1.clock1 > 0 THEN Tick(s1, None) ELSE StartClosing(s1)
    ELSE LET s1 == [s EXCEPT !.clock2 = @ - 1] IN
         IF s1.clock2 > 0 THEN Tick(s1, None) ELSE CloseCave(s1)

(***************************************************************************)
(* Words                                                                   *)
(***************************************************************************)
\* str.lower() on the words of the model
Lower(w) ==
    CASE w = "LOOK" -> "look"
      [] w = "Quit" -> "quit"
      [] OTHER -> w

\* _normalize_word: word[:WORD_LENGTH]. Every word of the model that is not
\* listed has at most 5 characters.
NormalizeWord(w) ==
    CASE w = "inventory" -> "inven"
      [] w = "xyzflurble" -> "xyzfl"
      [] w = "bottle" -> "bottl"
      [] w = "silver" -> "silve"
      [] w = "emerald" -> "emera"
      [] w = "plover" -> "plove"
      [] w = "magazine" -> "magaz"
      [] w = "diamonds" -> "diamo"
      [] w = "jewelry" -> "jewel"
      [] w = "trident" -> "tride"
      [] w = "pyramid" -> "pyram"
      [] w = "spices" -> "spice"
      [] w = "fissure" -> "fissu"
      [] w = "dragon" -> "drago"
      [] w = "attack" -> "attac"
      [] w = "unlock" -> "unloc"
      [] OTHER -> w

\* the missing noun of a one-word command (Python's None)
NoNoun == ""

\* _vocab_lookup: the set holding the entry found, or the empty set
VocabLookup(word) ==
    IF Has(Vocabulary, word) THEN {Vocabulary[word]}
    ELSE IF Has(LONG_WORDS, word) /\ Has(Vocabulary, LONG_WORDS[word])
         THEN {Vocabulary[LONG_WORDS[word]]}
         ELSE {}

IsMotionWord(word) == \E e \in VocabLookup(word) : e.kind = "motion"

\* _resolve_direction: the set holding the verb number, or the empty set
ResolveDirection(direction) ==
    {e.number : e \in {x \in VocabLookup(NormalizeWord(Lower(direction))) :
                        x.kind = "motion"}}

\* the objects one of whose names has the 5-character form `noun`
Named(noun) ==
    {o \in ObjIds : \E i \in 1..Len(Objects[o].names) :
                        NormalizeWord(Objects[o].names[i]) = noun}

\* _resolve_noun: the set holding the object number, or the empty set (None).
\* Among several present objects of the same name the first of world.objects
\* is taken, which load_world fills in ascending object number.
\* Variant: a known name always resolves to its default object.
ResolveNounDefault(s, noun) ==
    IF noun = NoNoun THEN {}
    ELSE IF ~Has(ObjectNames, NormalizeWord(noun)) THEN {}
    ELSE {ObjectNames[NormalizeWord(noun)]}

ResolveNoun(s, noun) ==
    IF noun = NoNoun THEN {}
    ELSE LET n == NormalizeWord(noun) IN
         IF ~Has(ObjectNames, n) THEN {}
         ELSE LET default == ObjectNames[n]
                  others == {o \in Named(n) \ {default} : IsHere(s, o)}
              IN  IF IsHere(s, default) THEN {default}
                  ELSE IF others # {} THEN {CHOOSE o \in others : \A p \in others : o <= p}
                  ELSE {default}

(***************************************************************************)
(* Room description                                                        *)
(***************************************************************************)
GetRoomDescription(s) ==
    IF s.current_room \notin RoomIds THEN "You are in a mysterious place."
    ELSE LET room == Rooms[s.current_room] IN
         IF IsDark(s) THEN MSG_PITCH_DARK
         ELSE IF /\ s.current_room \in s.visited_rooms
                 /\ room.short_description # ""
                 /\ s.detail_level = 0
              THEN room.short_description
              ELSE IF room.long_description # "" THEN room.long_description
              ELSE IF room.short_description # "" THEN room.short_description
              ELSE "You are somewhere."

(***************************************************************************)
(* Death                                                                   *)
(***************************************************************************)
CmdDie(s) ==
    LET s1 == [s EXCEPT !.deaths = @ + 1] IN
    IF s1.deaths >= s1.max_deaths
    THEN LET s2 == [s1 EXCEPT !.is_finished = TRUE] IN
         {[st |-> s2,
           out |-> <<MSG_DIED, MSG_GAME_OVER,
                     "Your score: " \o ToString(CalculateScore(s2))>>,
           died |-> <<s>>]}
    ELSE {[st |-> [s1 EXCEPT !.current_room = BUILDING,
                             !.old_room = BUILDING,
                             !.object_locations = DropAllAt(s1, BUILDING),
                             !.lamp_on = FALSE],
           out |-> <<MSG_DIED, MSG_RESURRECT>>,
           died |-> <<s>>]}

(***************************************************************************)
(* Movement. random.random() and random.randint() are nondeterministic     *)
(* choices, so every movement operator yields the set of its outcomes.     *)
(* `seen` holds the forced rooms the current chain of forced moves has     *)
(* been through: a chain that comes back to one of them never ends, which  *)
(* Python reports as a RecursionError.                                     *)
(***************************************************************************)
\* _check_condition: the set of truth values it can return
CheckCondition(s, condition) ==
    CASE condition[1] = "none" -> {TRUE}
      [] condition[1] = "%" ->
            {b \in BOOLEAN : (b /\ condition[2] >= 1) \/ (~b /\ condition[2] < 100)}
      [] condition[1] = "not_dwarf" -> {TRUE}
      [] condition[1] = "carrying" -> {IsCarrying(s, condition[2])}
      [] condition[1] = "carrying_or_in_room_with" ->
            {IsCarrying(s, condition[2]) \/ IsAt(s, condition[2], s.current_room)}
      [] condition[1] = "prop!=" ->
            {Get(s.object_props, condition[2], 0) # condition[3]}
      [] OTHER -> {TRUE}

\* room and room.travel_table and room.travel_table[0].is_forced
StartsForced(room_n) ==
    /\ room_n \in RoomIds
    /\ Len(Rooms[room_n].travel_table) > 0
    /\ Rooms[room_n].travel_table[1].is_forced

\* the outcomes of random.random() < 0.35
DarkRoll == {b \in BOOLEAN : (b /\ DARK_DEATH_PERCENT > 0) \/ (~b /\ DARK_DEATH_PERCENT < 100)}

\* Variant: a forced room whose forced move leads back into itself.
HandleForcedLoops(s, room_n, seen) == {Out(s, <<RAISED>>)}

RECURSIVE MoveTo(_, _, _), HandleForced(_, _, _), ForcedFrom(_, _, _, _),
          HandleSpecialMovement(_, _, _), CrossTrollBridge(_, _)

MoveTo(s, dest, seen) ==
    LET s1 == [s EXCEPT !.old_old_room = s.old_room,
                        !.old_room = s.current_room,
                        !.current_room = dest,
                        !.visited_rooms = @ \cup {dest}]
    IN  IF StartsForced(dest) THEN HandleForced(s1, dest, seen)
        ELSE IF IsDark(s1)
             THEN UNION {IF die THEN CmdDie(s1)
                         ELSE {Out(s1, <<GetRoomDescription(s1)>>)} : die \in DarkRoll}
             ELSE {Out(s1, <<GetRoomDescription(s1)>>)}

\* the loop of _handle_forced from entry i of the room's travel table
ForcedFrom(s, room_n, i, seen) ==
    LET table == Rooms[room_n].travel_table
        msg == GetRoomDescription(s)
    IN
    IF i > Len(table) THEN {Out(s, <<msg>>)}
    ELSE LET move == table[i]
             dest == move.destination
             s1 == [s EXCEPT !.old_room = s.current_room,
                             !.current_room = dest,
                             !.visited_rooms = @ \cup {dest}]
             taken ==
                IF 0 < dest /\ dest <= 300 THEN
                    IF StartsForced(dest)
                    THEN Prefixed(<<msg>>, HandleForced(s1, dest, seen \cup {room_n}))
                    ELSE {Out(s1, <<msg, GetRoomDescription(s1)>>)}
                ELSE IF dest < 0 THEN {Out(s, <<Get(Messages, -dest, "")>>)}
                ELSE IF 301 <= dest /\ dest <= 500
                     THEN Prefixed(<<msg>>,
                                   HandleSpecialMovement(s, dest, seen \cup {room_n}))
                ELSE {Out(s, <<msg>>)}
         IN  IF ~move.is_forced THEN ForcedFrom(s, room_n, i + 1, seen)
             ELSE UNION {IF ok THEN taken ELSE ForcedFrom(s, room_n, i + 1, seen)
                         : ok \in CheckCondition(s, move.condition)}

HandleForced(s, room_n, seen) ==
    IF room_n \in seen THEN {Out(s, <<RAISED>>)}
    ELSE ForcedFrom(s, room_n, 1, seen)

CrossTrollBridge(s, seen) ==
    LET other_side == IF s.current_room = 117 THEN 122 ELSE 117 IN
    IF IsCarrying(s, BEAR)
    THEN LET s1 == [s EXCEPT
                      !.object_props = Put(Put(@, CHASM, 1), TROLL, 2),
                      !.object_locations = Put(Put(@, BEAR, DESTROYED), TROLL, DESTROYED)]
         IN  Prefixed(<<"Just as you reach the other side, the bridge buckles beneath the weight of the bear and you. You scrabble desperately for support, but as the bridge collapses you stumble back and fall into the chasm.">>,
                      CmdDie(s1))
    ELSE {[o EXCEPT !.st = IF Get(o.st.object_props, TROLL, 0) = 0
                           THEN [o.st EXCEPT !.object_props = Put(@, TROLL, 1)]
                           ELSE o.st]
          : o \in MoveTo(s, other_side, seen)}

HandleSpecialMovement(s, dest, seen) ==
    IF dest = 301 THEN CmdDie(s)
    ELSE IF dest = 302
         THEN MoveTo(IF IsCarrying(s, EMERALD)
                     THEN [s EXCEPT !.object_locations = Put(@, EMERALD, s.current_room)]
                     ELSE s,
                     Y2_ROOM, seen)
    ELSE IF dest = 303 THEN CrossTrollBridge(s, seen)
    ELSE {Out(s, <<"Something strange happens...">>)}

\* _check_closing_block: the refusal, or None
MSG_EXIT_CLOSED == "A mysterious recorded voice groans into life and announces:\n   \"This exit is closed.  Please leave via main office.\""

CheckClosingBlock(s, direction) ==
    IF ~s.is_closing THEN None
    ELSE IF NormalizeWord(Lower(direction)) \in {"xyzzy", "plugh"}
         THEN <<MSG_EXIT_CLOSED>>
         ELSE None

\* the loop of _walk_travel_table from entry i; an outcome with text None
\* stands for "no move matched"
RECURSIVE WalkFrom(_, _, _, _)
WalkFrom(s, table, verb_n, i) ==
    IF i > Len(table) THEN {Out(s, None)}
    ELSE LET move == table[i]
             dest == move.destination
             taken ==
                IF dest < 0 THEN {Out(s, <<Get(Messages, -dest, MSG_CANT_GO)>>)}
                ELSE IF 301 <= dest /\ dest <= 500
                     THEN HandleSpecialMovement(s, dest, {})
                     ELSE MoveTo(s, dest, {})
         IN  IF verb_n \notin move.verbs /\ ~move.is_forced
             THEN WalkFrom(s, table, verb_n, i + 1)
             ELSE UNION {IF ok THEN taken ELSE WalkFrom(s, table, verb_n, i + 1)
                         : ok \in CheckCondition(s, move.condition)}

\* Variant: the first entry with the verb is taken whether or not its
\* condition holds.
RECURSIVE WalkUnconditionally(_, _, _, _)
WalkUnconditionally(s, table, verb_n, i) ==
    IF i > Len(table) THEN {Out(s, None)}
    ELSE LET move == table[i]
             dest == move.destination
         IN  IF verb_n \notin move.verbs /\ ~move.is_forced
             THEN WalkUnconditionally(s, table, verb_n, i + 1)
             ELSE IF dest < 0 THEN {Out(s, <<Get(Messages, -dest, MSG_CANT_GO)>>)}
             ELSE IF 301 <= dest /\ dest <= 500 THEN HandleSpecialMovement(s, dest, {})
             ELSE MoveTo(s, dest, {})

WalkFirstEntry(s, room_n, verb_n) ==
    WalkUnconditionally(s, Rooms[room_n].travel_table, verb_n, 1)

WalkTravelTable(s, room_n, verb_n) ==
    WalkFrom(s, Rooms[room_n].travel_table, verb_n, 1)

\* x or default, for every outcome
\* Variant: a command nothing matched keeps its empty result.
OrElseNothing(outcomes, default) == outcomes

OrElse(outcomes, default) ==
    {IF Truthy(o.out) THEN o ELSE [o EXCEPT !.out = default] : o \in outcomes}

(***************************************************************************)
(* Verb handlers. A handler without random choices yields one outcome.     *)
(***************************************************************************)
TakeBear(s) ==
    IF ~s.bear_tame THEN Out(s, <<"It is fixed in place.">>)
    ELSE Out([s EXCEPT !.object_locations = Put(@, BEAR, CARRIED)], <<MSG_OK>>)

\* _take_special: an outcome whose text is None when the object is not special
TakeSpecial(s, obj_n) ==
    IF obj_n = BIRD THEN
        IF IsCarrying(s, ROD)
        THEN Out(s, <<"The bird is frightened by the rod and you cannot catch it.">>)
        ELSE IF ~IsCarrying(s, CAGE)
        THEN Out(s, <<"You can catch the bird, but you cannot carry it.">>)
        ELSE Out([s EXCEPT !.object_locations = Put(@, BIRD, CARRIED),
                           !.object_props = Put(@, BIRD, 1)],
                 <<"You catch the bird in the cage.">>)
    ELSE IF obj_n \in {WATER, OIL} THEN
        IF ~IsCarrying(s, BOTTLE)
        THEN Out(s, <<"You have nothing in which to carry it.">>)
        ELSE Out([s EXCEPT !.object_locations = Put(@, obj_n, CARRIED),
                           !.object_props = Put(@, BOTTLE, IF obj_n = WATER THEN 1 ELSE 2)],
                 <<"Your bottle is now full.">>)
    ELSE Out(s, None)

TakeFromLiquidSource(s, obj_n) ==
    IF obj_n \notin {WATER, OIL} THEN Out(s, None)
    ELSE IF s.current_room \in RoomIds /\ Rooms[s.current_room].liquid = obj_n
         THEN TakeSpecial(s, obj_n)
         ELSE Out(s, None)

IsTakeable(s, obj_n) ==
    IF obj_n \notin ObjIds \/ ~Objects[obj_n].is_fixed THEN TRUE
    ELSE obj_n = CHAIN /\ Get(s.object_props, CHAIN, 1) = 0

\* Variant: a taken treasure is not marked as found.
DoTakeUnmarked(s, obj_n) ==
    IF obj_n = BEAR THEN TakeBear(s)
    ELSE IF ~IsTakeable(s, obj_n) THEN Out(s, <<"It is fixed in place.">>)
    ELSE IF IsDark(s) THEN Out(s, <<MSG_TOO_DARK>>)
    ELSE LET special == TakeSpecial(s, obj_n) IN
         IF Truthy(special.out) THEN special
         ELSE IF CarriedCount(s) >= MAX_CARRIED
         THEN Out(s, <<"You can't carry any more. Try dropping something first.">>)
         ELSE Out([s EXCEPT !.object_locations = Put(@, obj_n, CARRIED)], <<MSG_OK>>)

DoTake(s, obj_n) ==
    IF obj_n = BEAR THEN TakeBear(s)
    ELSE IF ~IsTakeable(s, obj_n) THEN Out(s, <<"It is fixed in place.">>)
    ELSE IF IsDark(s) THEN Out(s, <<MSG_TOO_DARK>>)
    ELSE LET special == TakeSpecial(s, obj_n) IN
         IF Truthy(special.out) THEN special
         ELSE IF CarriedCount(s) >= MAX_CARRIED
         THEN Out(s, <<"You can't carry any more. Try dropping something first.">>)
         ELSE Out([s EXCEPT
                     !.object_locations = Put(@, obj_n, CARRIED),
                     !.object_props =
                        IF /\ obj_n \in ObjIds
                           /\ Objects[obj_n].is_treasure
                           /\ ~Has(s.object_props, obj_n)
                        THEN Put(@, obj_n, 0) ELSE @],
                  <<MSG_OK>>)

CmdTake(s, noun) ==
    IF noun = NoNoun THEN Out(s, <<"What do you want to take?">>)
    ELSE LET r == ResolveNoun(s, noun) IN
         IF r = {} THEN Out(s, <<"I don't know what '" \o noun \o "' is.">>)
         ELSE LET obj_n == CHOOSE o \in r : TRUE IN
              IF IsCarrying(s, obj_n) THEN Out(s, <<"You're already carrying it!">>)
              ELSE IF ~IsAt(s, obj_n, s.current_room)
              THEN LET liquid == TakeFromLiquidSource(s, obj_n) IN
                   IF Truthy(liquid.out) THEN liquid
                   ELSE Out(s, <<"I don't see that here.">>)
              ELSE DoTake(s, obj_n)

CmdDrop(s, noun) ==
    IF noun = NoNoun THEN Out(s, <<"What do you want to drop?">>)
    ELSE LET r == ResolveNoun(s, noun) IN
         IF r = {} THEN Out(s, <<"I don't know what '" \o noun \o "' is.">>)
         ELSE LET obj_n == CHOOSE o \in r : TRUE
                  \* dropping the bird releases it
                  s0 == IF obj_n = BIRD
                        THEN [s EXCEPT !.object_props = Put(@, BIRD, 0)] ELSE s
              IN
              IF ~IsCarrying(s, obj_n) THEN Out(s, <<"You aren't carrying it!">>)
              ELSE IF obj_n = BIRD /\ IsAt(s0, SNAKE, s0.current_room)
              THEN Out([s0 EXCEPT
                          !.object_locations =
                              Put(Put(@, SNAKE, DESTROYED), BIRD, s0.current_room),
                          !.object_props = Put(@, SNAKE, 1)],
                       <<"The little bird attacks the green snake, which flees.">>)
              ELSE IF obj_n = BEAR THEN
                   IF \/ IsAt(s, TROLL, s.current_room)
                      \/ (s.current_room \in {117, 122} /\ Get(s.object_props, TROLL, 0) = 1)
                   THEN Out([s EXCEPT
                               !.object_locations =
                                   Put(Put(@, BEAR, s.current_room), TROLL, DESTROYED),
                               !.object_props = Put(Put(Put(@, BEAR, 3), TROLL, 2), CHASM, 0)],
                            <<"The bear lumbers toward the troll, who lets out a startled shriek and scurries away. The bear soon gives up the pursuit and wanders back.">>)
                   ELSE Out([s EXCEPT !.object_locations = Put(@, BEAR, s.current_room)],
                            <<MSG_OK>>)
              ELSE IF obj_n = 58 THEN
                   IF IsAt(s, 10, s.current_room)
                   THEN Out([s EXCEPT !.object_props = Put(@, 58, 0),
                                      !.object_locations = Put(@, 58, s.current_room)],
                            <<"The vase is now resting, delicately, on a velvet pillow.">>)
                   ELSE Out([s EXCEPT !.object_props = Put(@, 58, 2),
                                      !.object_locations = Put(@, 58, s.current_room)],
                            <<"The vase drops with a delicate crash and shatters into a thousand pieces.">>)
              ELSE Out([s0 EXCEPT !.object_locations = Put(@, obj_n, s0.current_room)],
                       <<MSG_OK>>)

\* Variant: the lamp is lit whatever power it has left.
CmdOnWithoutPower(s) ==
    IF ~IsHere(s, LAMP) THEN Out(s, <<"You have no source of light.">>)
    ELSE LET s1 == [s EXCEPT !.lamp_on = TRUE, !.object_props = Put(@, LAMP, 1)] IN
         IF IsDark(s1) THEN Out(s1, <<"Your lamp is now on.">>)
         ELSE Out(s1, <<"Your lamp is now on.", GetRoomDescription(s1)>>)

CmdOn(s) ==
    IF ~IsHere(s, LAMP) THEN Out(s, <<"You have no source of light.">>)
    ELSE IF s.lamp_turns <= 0 THEN Out(s, <<MSG_RAN_OUT>>)
    ELSE LET s1 == [s EXCEPT !.lamp_on = TRUE, !.object_props = Put(@, LAMP, 1)] IN
         IF IsDark(s1) THEN Out(s1, <<"Your lamp is now on.">>)
         ELSE Out(s1, <<"Your lamp is now on.", GetRoomDescription(s1)>>)

CmdOff(s) ==
    IF ~IsHere(s, LAMP) THEN Out(s, <<"You have no source of light.">>)
    ELSE Out([s EXCEPT !.lamp_on = FALSE, !.object_props = Put(@, LAMP, 0)],
             <<"Your lamp is now off.">>)

CmdLook(s) ==
    LET s1 == [s EXCEPT !.detail_level = @ + 1] IN
    IF s1.current_room \notin RoomIds THEN Out(s1, <<"You are in a mysterious place.">>)
    ELSE LET room == Rooms[s1.current_room] IN
         IF IsDark(s1) THEN Out(s1, <<MSG_PITCH_DARK>>)
         ELSE IF room.long_description # "" THEN Out(s1, <<room.long_description>>)
         ELSE IF room.short_description # "" THEN Out(s1, <<room.short_description>>)
         ELSE Out(s1, <<"You are somewhere.">>)

\* str.capitalize() on the names of the objects without an inventory message
Capitalize(w) ==
    CASE w = "bird" -> "Bird"
      [] w = "cage" -> "Cage"
      [] w = "food" -> "Food"
      [] w = "bear" -> "Bear"
      [] w = "emerald" -> "Emerald"
      [] OTHER -> w

\* get_inventory, as the lines "  item\n" it is printed in, in the order of
\* object_locations (ascending object number)
RECURSIVE InventoryLines(_, _)
InventoryLines(s, objs) ==
    IF objs = {} THEN ""
    ELSE LET o == CHOOSE x \in objs : \A y \in objs : x <= y
             item == IF o \notin ObjIds THEN ""
                     ELSE IF Objects[o].inventory_message # ""
                          THEN Objects[o].inventory_message
                     ELSE IF Len(Objects[o].names) > 0
                          THEN Capitalize(Objects[o].names[1])
                     ELSE ""
         IN  (IF item = "" THEN "" ELSE "\n  " \o item) \o InventoryLines(s, objs \ {o})

CmdInventory(s) ==
    LET carried == {o \in DOMAIN s.object_locations : s.object_locations[o] = CARRIED}
        lines == InventoryLines(s, carried)
    IN  IF lines = "" THEN Out(s, <<"You're not carrying anything.">>)
        ELSE Out(s, <<"You are currently holding:" \o lines>>)

CmdScore(s) ==
    Out(s, <<"Your current score is " \o ToString(CalculateScore(s))
             \o " out of a possible 350.">>)

\* Variant: quitting ends the game without recording that the player gave up.
CmdQuitKeepsBonus(s) ==
    LET s1 == [s EXCEPT !.is_finished = TRUE] IN
    Out(s1, <<"You scored " \o ToString(CalculateScore(s1))
              \o " out of a possible 350. Thanks for playing!">>)

CmdQuit(s) ==
    LET s1 == [s EXCEPT !.is_finished = TRUE, !.gave_up = TRUE] IN
    Out(s1, <<"You scored " \o ToString(CalculateScore(s1))
              \o " out of a possible 350. Thanks for playing!">>)

CmdBrief(s) ==
    Out([s EXCEPT !.detail_level = 0],
        <<"OK, I'll only describe a place in full the first time you come to it.">>)

\* Variant: the two ends of the repository earn each other's bonus.
CmdBlastSwapped(s) ==
    IF ~s.is_closed THEN Out(s, <<"Blasting requires dynamite.">>)
    ELSE IF ~(IsCarrying(s, ROD2) \/ IsHere(s, ROD2))
    THEN Out(s, <<"Blasting requires dynamite.">>)
    ELSE LET code == IF s.current_room = REPOSITORY_SW THEN 134
                     ELSE IF s.current_room = REPOSITORY_NE THEN 133 ELSE 135
         IN  Out([s EXCEPT !.is_finished = TRUE, !.bonus = code],
                 <<Get(Messages, code, "")>>)

CmdBlast(s) ==
    IF ~s.is_closed THEN Out(s, <<"Blasting requires dynamite.">>)
    ELSE IF ~(IsCarrying(s, ROD2) \/ IsHere(s, ROD2))
    THEN Out(s, <<"Blasting requires dynamite.">>)
    ELSE LET code == IF s.current_room = REPOSITORY_SW THEN 133
                     ELSE IF s.current_room = REPOSITORY_NE THEN 134 ELSE 135
         IN  Out([s EXCEPT !.is_finished = TRUE, !.bonus = code],
                 <<Get(Messages, code, "")>>)

CmdFeeWord(s, word0) ==
    LET word == IF word0 = "fum" THEN "fee" ELSE word0
        idx == CASE word = "fee" -> 0 [] word = "fie" -> 1
                 [] word = "foe" -> 2 [] word = "foo" -> 3 [] OTHER -> -1
        moved == [s EXCEPT !.object_locations = Put(@, EGGS, 92),
                           !.object_props = Put(@, EGGS, 0)]
        done == IF Get(moved.object_props, TROLL, 0) = 2
                THEN [moved EXCEPT !.object_props = Put(Put(@, TROLL, 0), CHASM, 0),
                                   !.object_locations = Put(@, TROLL, 117)]
                ELSE moved
    IN
    IF idx < 0 THEN Out(s, <<"I don't understand that.">>)
    ELSE IF idx = 0 THEN Out([s EXCEPT !.foobar = s.turns], <<MSG_OK>>)
    ELSE IF s.turns - s.foobar # idx
    THEN Out([s EXCEPT !.foobar = 0],
             <<"What's the matter, can't you read?  Now you'd best start over.">>)
    ELSE IF idx < 3 THEN Out(s, <<MSG_OK>>)
    ELSE IF IsAt(s, EGGS, 92) /\ ~IsAt(s, TROLL, DESTROYED)
    THEN Out(s, <<"Nothing happens.">>)
    ELSE IF done.current_room = 92 THEN Out(done, <<GetRoomDescription(done)>>)
    ELSE Out(done, <<"Done!">>)

\* Variant: a command that leads nowhere still counts as leaving the room.
CmdGoLeaving(s, direction) ==
    IF s.current_room \notin RoomIds THEN {Out(s, <<MSG_CANT_GO>>)}
    ELSE LET r == ResolveDirection(direction)
             left == [s EXCEPT !.old_old_room = s.old_room, !.old_room = s.current_room]
         IN
         IF r = {} THEN {Out(s, <<"I don't know that direction.">>)}
         ELSE LET verb_n == CHOOSE v \in r : TRUE
                  blocked == CheckClosingBlock(s, direction)
              IN  IF verb_n = BACK_VERB THEN MoveTo(s, s.old_room, {})
                  ELSE IF verb_n = LOOK_VERB THEN {CmdLook(s)}
                  ELSE IF Truthy(blocked) THEN {Out(s, blocked)}
                  ELSE {IF o.st = s THEN [o EXCEPT !.st = left] ELSE o :
                           o \in OrElse(WalkTravelTable(s, s.current_room, verb_n),
                                        <<MSG_CANT_GO>>)}

CmdGo(s, direction) ==
    IF s.current_room \notin RoomIds THEN {Out(s, <<MSG_CANT_GO>>)}
    ELSE LET r == ResolveDirection(direction) IN
         IF r = {} THEN {Out(s, <<"I don't know that direction.">>)}
         ELSE LET verb_n == CHOOSE v \in r : TRUE
                  blocked == CheckClosingBlock(s, direction)
              IN  IF verb_n = BACK_VERB THEN MoveTo(s, s.old_room, {})
                  ELSE IF verb_n = LOOK_VERB THEN {CmdLook(s)}
                  ELSE IF Truthy(blocked) THEN {Out(s, blocked)}
                  ELSE OrElse(WalkTravelTable(s, s.current_room, verb_n),
                              <<MSG_CANT_GO>>)

CmdSay(s, noun) ==
    IF noun = NoNoun THEN {Out(s, <<"What do you want to say?">>)}
    ELSE LET word == NormalizeWord(Lower(noun)) IN
         IF word \in {"xyzzy", "plugh", "plove"} THEN CmdGo(s, word)
         ELSE {Out(s, <<"OK, \"" \o word \o "\".">>)}

(***************************************************************************)
(* Dispatch and handle_command                                             *)
(***************************************************************************)
\* _VERB_DISPATCH, for the verbs the model's inputs use. The set of the
\* handler's outcomes, or the empty set when the verb has no handler.
OpenGrate(s) ==
    IF ~IsHere(s, KEYS) THEN Out(s, <<"You have no keys!">>)
    ELSE Out([s EXCEPT !.object_props = Put(@, GRATE, 1)], <<"The grate is now open.">>)

OpenClam(s) ==
    IF IsCarrying(s, CLAM)
    THEN Out(s, <<"I advise you to put down the clam before opening it. >STRAIN!<">>)
    ELSE Out([s EXCEPT
                !.object_locations = Put(Put(Put(@, CLAM, DESTROYED), OYSTER, s.current_room),
                                         61, 105),
                !.object_props = Put(@, 61, 0)],
             <<"A glistening pearl falls out of the clam and rolls away!">>)

OpenChain(s) ==
    IF ~IsHere(s, KEYS) THEN Out(s, <<"You have no keys!">>)
    ELSE LET s1 == [s EXCEPT !.object_props = Put(@, CHAIN, 0),
                             !.object_locations = Put(@, CHAIN, s.current_room)]
             s2 == IF IsHere(s1, BEAR)
                   THEN [s1 EXCEPT !.object_props = Put(@, BEAR, 1), !.bear_tame = TRUE]
                   ELSE s1
         IN  Out(s2, <<"The chain is now unlocked.">>)

OpenDoor(s) ==
    IF Get(s.object_props, DOOR, 0) = 1 THEN Out(s, <<"The door is open.">>)
    ELSE Out(s, <<"The door is extremely rusty and refuses to open.">>)

CmdOpen(s, noun) ==
    IF noun = NoNoun THEN Out(s, <<"What do you want to open?">>)
    ELSE LET r == ResolveNoun(s, noun) IN
         IF r = {} THEN Out(s, <<"I don't know what '" \o noun \o "' is.">>)
         ELSE IF r = {DOOR} THEN OpenDoor(s)
         ELSE IF r = {OYSTER} THEN Out(s, <<"The oyster creaks open, revealing nothing inside.">>)
         ELSE IF r = {GRATE} THEN OpenGrate(s)
         ELSE IF r = {CLAM} THEN OpenClam(s)
         ELSE IF r = {CHAIN} THEN OpenChain(s)
         ELSE Out(s, <<"I don't know how to open that.">>)

CmdClose(s, noun) ==
    IF noun = NoNoun THEN Out(s, <<"What do you want to close?">>)
    ELSE LET r == ResolveNoun(s, noun) IN
         IF r = {} THEN Out(s, <<"I don't know what '" \o noun \o "' is.">>)
         ELSE IF r = {GRATE}
         THEN Out([s EXCEPT !.object_props = Put(@, GRATE, 0)], <<"The grate is now locked.">>)
         ELSE Out(s, <<"I don't know how to close that.">>)

AttackDragon(s) ==
    IF Get(s.object_props, DRAGON, 0) # 0 THEN Out(s, <<"The dragon is already dead.">>)
    ELSE Out([s EXCEPT
                !.object_props = Put(Put(Put(@, DRAGON, 1), DRAGON + 100, 0), 62, 0),
                !.object_locations = Put(@, 62, s.current_room)],
             <<"With what? Your bare hands?",
               "Congratulations! You have just vanquished a dragon with your bare hands! (Strstrstr...)">>)

AttackBird(s) ==
    IF IsHere(s, BIRD)
    THEN Out([s EXCEPT !.object_locations = Put(@, BIRD, DESTROYED)],
             <<"The little bird is now dead. Its body disappears.">>)
    ELSE Out(s, <<"I see no bird here.">>)

AttackBear(s) ==
    IF s.bear_tame THEN Out(s, <<"The bear is confused. He only wants to be your friend.">>)
    ELSE Out(s, <<"With what? Your bare hands? Against HIS bare hands?">>)

CmdAttack(s, noun) ==
    IF noun = NoNoun THEN Out(s, <<"What do you want to attack?">>)
    ELSE LET r == ResolveNoun(s, noun) IN
         IF r = {DRAGON} THEN AttackDragon(s)
         ELSE IF r = {SNAKE}
         THEN Out(s, <<"Attacking the snake both doesn't work and is very dangerous.">>)
         ELSE IF r = {BIRD} THEN AttackBird(s)
         ELSE IF r = {TROLL}
         THEN Out(s, <<"Trolls are close relatives with the rocks and have skin as tough as stone.">>)
         ELSE IF r = {BEAR} THEN AttackBear(s)
         ELSE Out(s, <<"I'm game. Would you care to explain how?">>)

FeedSnake(s) ==
    IF IsCarrying(s, BIRD)
    THEN Out([s EXCEPT !.object_locations = Put(@, BIRD, DESTROYED)],
             <<"The snake devours your bird!">>)
    ELSE Out(s, <<"There's nothing here it wants to eat.">>)

FeedBear(s) ==
    IF IsCarrying(s, FOOD)
    THEN Out([s EXCEPT !.object_locations = Put(@, FOOD, DESTROYED),
                       !.object_props = Put(@, BEAR, 1),
                       !.bear_tame = TRUE],
             <<"The bear eagerly wolfs down your food.">>)
    ELSE Out(s, <<"There's nothing here it wants to eat.">>)

CmdFeed(s, noun) ==
    IF noun = NoNoun THEN Out(s, <<"What do you want to feed?">>)
    ELSE LET r == ResolveNoun(s, noun) IN
         IF r = {BIRD} THEN Out(s, <<"It's not hungry (it's merely pstrp).">>)
         ELSE IF r = {DRAGON}
         THEN Out(s, <<"There's nothing here it wants to eat (strstrstr...).">>)
         ELSE IF r = {SNAKE} THEN FeedSnake(s)
         ELSE IF r = {TROLL} THEN Out(s, <<"Gluttony is not one of the tstrstrstr...">>)
         ELSE IF r = {BEAR} THEN FeedBear(s)
         ELSE Out(s, <<"I'm not sure what you want me to do.">>)

CmdFill(s, noun) ==
    IF noun # NoNoun /\ NormalizeWord(noun) = "bottl" THEN
        IF ~IsCarrying(s, BOTTLE) THEN Out(s, <<"You aren't carrying it!">>)
        ELSE IF IsCarrying(s, WATER) \/ IsCarrying(s, OIL)
        THEN Out(s, <<"Your bottle is already full.">>)
        ELSE IF s.current_room \in RoomIds /\ Rooms[s.current_room].liquid # NoLiquid
        THEN LET liquid == Rooms[s.current_room].liquid
             IN  Out([s EXCEPT !.object_locations = Put(@, liquid, CARRIED),
                               !.object_props = Put(@, BOTTLE, IF liquid = WATER THEN 1 ELSE 2)],
                     <<"Your bottle is now full.">>)
        ELSE Out(s, <<"There is nothing here with which to fill the bottle.">>)
    ELSE Out(s, <<"You can't fill that.">>)

VerbHandlers ==
    {"take", "get", "carry", "catch", "steal", "captu", "drop", "relea", "disca",
     "on", "light", "off", "extin", "look", "l", "inven", "i", "quit", "q",
     "score", "say", "brief", "blast", "deton", "ignit", "blowu",
     "swim", "nothi", "save", "open", "unloc", "close", "lock",
     "kill", "attac", "fight", "feed", "fill"}

VerbDispatch(s, verb, noun) ==
    CASE verb \in {"take", "get", "carry", "catch", "steal", "captu"} -> {CmdTake(s, noun)}
      [] verb \in {"drop", "relea", "disca"} -> {CmdDrop(s, noun)}
      [] verb \in {"on", "light"} -> {CmdOn(s)}
      [] verb \in {"off", "extin"} -> {CmdOff(s)}
      [] verb \in {"look", "l"} -> {CmdLook(s)}
      [] verb \in {"inven", "i"} -> {CmdInventory(s)}
      [] verb \in {"quit", "q"} -> {CmdQuit(s)}
      [] verb = "score" -> {CmdScore(s)}
      [] verb = "say" -> CmdSay(s, noun)
      [] verb = "brief" -> {CmdBrief(s)}
      [] verb \in {"blast", "deton", "ignit", "blowu"} -> {CmdBlast(s)}
      [] verb = "swim" -> {Out(s, <<"I don't know how.">>)}
      [] verb = "nothi" -> {Out(s, <<MSG_OK>>)}
      [] verb = "save" -> {Out(s, <<"Your game is automatically saved after each move.">>)}
      [] verb \in {"open", "unloc"} -> {CmdOpen(s, noun)}
      [] verb \in {"close", "lock"} -> {CmdClose(s, noun)}
      [] verb \in {"kill", "attac", "fight"} -> {CmdAttack(s, noun)}
      [] verb = "feed" -> {CmdFeed(s, noun)}
      [] verb = "fill" -> {CmdFill(s, noun)}

\* _dispatch_verb: motion word, action verb, or bare noun; text None otherwise
DispatchVerb(s, verb, noun) ==
    IF IsMotionWord(verb) THEN CmdGo(s, verb)
    ELSE IF verb \in VerbHandlers THEN VerbDispatch(s, verb, noun)
    ELSE IF noun = NoNoun /\ Has(ObjectNames, verb) THEN
        LET obj_n == ObjectNames[verb] IN
        IF GetIs(s.object_locations, obj_n, CARRIED)
        THEN {Out(s, <<"You're already carrying it!">>)}
        ELSE IF GetIs(s.object_locations, obj_n, s.current_room)
        THEN {CmdTake(s, verb)}
        ELSE {Out(s, None)}
    ELSE {Out(s, None)}

\* Variant: the turn is not counted while the lamp burns.
IncTurnsUnlessLit(s) == IF s.lamp_on THEN s ELSE [s EXCEPT !.turns = @ + 1]

\* state.turns += 1
IncTurns(s) == [s EXCEPT !.turns = @ + 1]

\* raw_input.strip().lower().split(): the input is given as its words
Words(raw_input) == [i \in 1..Len(raw_input) |-> Lower(raw_input[i])]

\* closing_msg + "\n\n" + result when there is a closing message
WithClosing(closing_msg, outcomes) ==
    IF Truthy(closing_msg) THEN Prefixed(closing_msg, outcomes) ELSE outcomes

\* an exception leaves handle_command with no response text
Raises(out) == \E i \in 1..Len(out) : out[i] = RAISED

Propagate(outcomes) ==
    {IF Raises(o.out) THEN [o EXCEPT !.out = <<RAISED>>] ELSE o : o \in outcomes}

HandleCommand(s, raw_input) ==
    LET s0 == IncTurns(s)
        lamp == TickLamp(s0)
        closing == TickClosing(lamp.st)
        s1 == closing.st
        words == Words(raw_input)
        verb == NormalizeWord(words[1])
        noun == IF Len(words) > 1 THEN NormalizeWord(words[2]) ELSE NoNoun
    IN  IF Truthy(lamp.msg) THEN {Out(lamp.st, lamp.msg)}
        ELSE IF Len(words) = 0 THEN {Out(s1, <<MSG_PARDON>>)}
        ELSE IF verb \in {"fee", "fie", "foe", "foo", "fum"}
        THEN WithClosing(closing.msg, {CmdFeeWord(s1, verb)})
        ELSE Propagate(WithClosing(closing.msg,
                 OrElse(DispatchVerb(s1, verb, noun), <<MSG_DONT_UNDERSTAND>>)))

(***************************************************************************)
(* calculate_score called from outside a command (session.save, /score):   *)
(* the state it leaves and the value it returns                            *)
(***************************************************************************)
NoScore == <<>>

\* Variant: scoring counts its own calls in the state.
ScoreCallCounting(s) ==
    [st |-> [s EXCEPT !.detail_level = @ + 1], value |-> CalculateScore(s)]

ScoreCall(s) == [st |-> s, value |-> CalculateScore(s)]

(***************************************************************************)
(* Starting states                                                         *)
(***************************************************************************)
\* Deep in the cave at the stream, the lamp lit and nearly spent, two lives
\* lost: the lamp, the bottle and the keys are carried.
DeepStream ==
    [NewGameState EXCEPT
        !.current_room = 38, !.old_room = 28, !.old_old_room = 33,
        !.visited_rooms = {1, 3, 33, 28, 38},
        !.object_locations = Put(Put(Put(@, LAMP, CARRIED), BOTTLE, CARRIED), KEYS, CARRIED),
        !.object_props = Put(@, LAMP, 1),
        !.lamp_on = TRUE, !.lamp_turns = 2,
        !.deaths = 2,
        !.turns = TurnBase]

\* test_walkthrough._phase_closing_and_endgame: every treasure marked found
AllFound(props) == [o \in (DOMAIN props) \cup TreasureIds |->
                        IF o \in DOMAIN props THEN props[o] ELSE 0]

\* In the low passage with every treasure found; the lamp is carried and is
\* off, lit with plenty of power, or lit and nearly spent.
ReadyToClose(lit, power) ==
    [NewGameState EXCEPT
        !.current_room = 28, !.old_room = 33, !.old_old_room = 3,
        !.visited_rooms = {1, 3, 33, 28},
        !.object_locations = Put(@, LAMP, CARRIED),
        !.object_props = Put(AllFound(@), LAMP, IF lit THEN 1 ELSE 0),
        !.lamp_on = lit, !.lamp_turns = power,
        !.turns = 2 * TurnBase]

ReadyStates == {ReadyToClose(FALSE, LAMP_LIFE), ReadyToClose(TRUE, LAMP_LIFE),
                ReadyToClose(TRUE, 3)}

\* The same place with the lamp lit and one treasure, the bars of silver
\* lying there, not found yet.
AlmostReady ==
    LET s == ReadyToClose(TRUE, LAMP_LIFE)
    IN  [s EXCEPT !.object_props = [o \in (DOMAIN @) \ {SILVER} |-> @[o]]]

\* States handed to calculate_score: treasures unfound, found, deposited,
\* deposited in a changed state; lives, flags, bonus codes, hints.
TreasureCases == {"unfound", "found", "deposited", "broken"}

Placed(s, obj_id, case) ==
    CASE case = "unfound" -> s
      [] case = "found" ->
            [s EXCEPT !.object_props = Put(@, obj_id, 0),
                      !.object_locations = Put(@, obj_id, CARRIED)]
      [] case = "deposited" ->
            [s EXCEPT !.object_props = Put(@, obj_id, 0),
                      !.object_locations = Put(@, obj_id, BUILDING)]
      [] case = "broken" ->
            [s EXCEPT !.object_props = Put(@, obj_id, 1),
                      !.object_locations = Put(@, obj_id, BUILDING)]

EndStages == { <<FALSE, FALSE, 0>>, <<TRUE, FALSE, 0>>, <<FALSE, TRUE, 0>>,
               <<FALSE, TRUE, 133>>, <<FALSE, TRUE, 134>>, <<FALSE, TRUE, 135>> }

ScoreInputs ==
    { [Placed(Placed(Placed(NewGameState, NUGGET, c1), CHEST, c2), EGGS, c3) EXCEPT
            !.deaths = d, !.gave_up = g, !.dwarf_stage = w,
            !.is_closing = e[1], !.is_closed = e[2], !.bonus = e[3],
            !.object_locations = IF m THEN Put(@, MAGAZINE, 108) ELSE @,
            !.hints_given = h]
      : c1 \in TreasureCases, c2 \in TreasureCases, c3 \in {"unfound", "deposited"},
        d \in {0, 1, MAX_DEATHS}, g \in BOOLEAN, w \in {0, 1}, e \in EndStages,
        m \in BOOLEAN, h \in {{}, {4}, {4, 7}} }

\* The cave is closing and will close within MaxClockLeft calls; the player
\* has walked to Y2 with the lit lamp and the keys.
ClosingAtY2 ==
    LET s == StartClosing(ReadyToClose(TRUE, LAMP_LIFE - CLOCK1_START - CLOCK2_START)).st
    IN  [s EXCEPT !.current_room = Y2_ROOM, !.old_room = 28, !.old_old_room = 33,
                  !.object_locations = Put(@, KEYS, CARRIED),
                  !.clock1 = 0, !.clock2 = MaxClockLeft,
                  !.turns = 3 * TurnBase]

\* test_walkthrough (the full-score game): as ClosingAtY2, with every
\* treasure left in the building, the dwarves met on the way and the magazine
\* dropped at Witt's End
StoredAtY2 ==
    [ClosingAtY2 EXCEPT
        !.object_locations =
            Put([o \in DOMAIN @ |-> IF o \in TreasureIds THEN BUILDING ELSE @[o]],
                MAGAZINE, 108),
        !.dwarf_stage = 2,
        !.turns = 4 * TurnBase]

\* test_commands.test_pirate_steals_treasure: deep in the cave with the lit
\* lamp and the gold nugget, the pirate seen and standing in the same room
PirateHere ==
    [NewGameState EXCEPT
        !.current_room = 28, !.old_room = 28,
        !.visited_rooms = {28},
        !.object_locations = Put(Put(@, LAMP, CARRIED), NUGGET, CARRIED),
        !.object_props = Put(Put(@, LAMP, 1), NUGGET, 0),
        !.lamp_on = TRUE,
        !.dwarf_stage = 2,
        !.dwarf_locations = <<>>, !.dwarf_old_locations = <<>>, !.dwarf_seen = <<>>,
        !.pirate_location = 28, !.pirate_old_location = 28, !.pirate_seen = TRUE,
        !.turns = 4 * TurnBase]

\* Below the grate with the keys and the lit lamp, the grate locked; and in
\* the plover room, where the emerald lies, with the lit lamp
BelowGrate ==
    [NewGameState EXCEPT
        !.current_room = 9, !.old_room = 8, !.old_old_room = 1,
        !.visited_rooms = {1, 8, 9},
        !.object_locations = Put(Put(@, LAMP, CARRIED), KEYS, CARRIED),
        !.object_props = Put(@, LAMP, 1),
        !.lamp_on = TRUE,
        !.turns = 5 * TurnBase]

InPlover ==
    [NewGameState EXCEPT
        !.current_room = 100, !.old_room = 33, !.old_old_room = 3,
        !.visited_rooms = {1, 3, 33, 100},
        !.object_locations = Put(@, LAMP, CARRIED),
        !.object_props = Put(@, LAMP, 1),
        !.lamp_on = TRUE,
        !.turns = 6 * TurnBase]

\* In the building, carrying the nest of golden eggs; the lamp lies here
EggsCarried ==
    [NewGameState EXCEPT
        !.current_room = 3, !.old_room = 1, !.old_old_room = 1,
        !.visited_rooms = {1, 3},
        !.object_locations = Put(@, EGGS, CARRIED),
        !.object_props = Put(@, EGGS, 0),
        !.turns = 7 * TurnBase]

\* In the debris room, where the black rod lies, with the lit lamp
InDebris ==
    [NewGameState EXCEPT
        !.current_room = 11, !.old_room = 3, !.old_old_room = 1,
        !.visited_rooms = {1, 3, 11},
        !.object_locations = Put(@, LAMP, CARRIED),
        !.object_props = Put(@, LAMP, 1),
        !.lamp_on = TRUE,
        !.turns = 8 * TurnBase]

\* Back in the building with seven objects in hand: keys, lamp, food and
\* bottle from here, the cage, the rod and the gold from the cave
HandsFull ==
    [NewGameState EXCEPT
        !.current_room = 3, !.old_room = 11, !.old_old_room = 3,
        !.visited_rooms = {1, 3, 10, 11, 18},
        !.object_locations =
            [o \in DOMAIN @ |->
                IF o \in {KEYS, LAMP, FOOD, BOTTLE, CAGE, ROD, NUGGET} THEN CARRIED ELSE @[o]],
        !.object_props = Put(@, NUGGET, 0),
        !.turns = 9 * TurnBase]

Elapsed(s) == s.turns % TurnBase

\* no SavedGame row; load_world not running
NoSavedGame == <<>>
INTEGRITY_ERROR == "IntegrityError"
NotLoading == <<>>
\* no request of the player in flight
NoRequests == <<>>

(***************************************************************************)
(* session.py: the saved game of one player                                *)
(***************************************************************************)
\* the fields of GameState, in the order of the dataclass
GameStateFields ==
    << "current_room", "old_room", "old_old_room", "object_locations", "object_props",
       "turns", "lamp_turns", "lamp_on", "clock1", "clock2", "is_closing", "is_closed",
       "deaths", "max_deaths", "visited_rooms", "is_finished", "dwarf_stage",
       "dwarf_locations", "dwarf_old_locations", "dwarf_seen", "dwarf_killed",
       "pirate_location", "pirate_old_location", "pirate_seen", "hints_given",
       "gave_up", "detail_level", "bear_tame", "foobar", "bonus" >>

DictFields == {"object_locations", "object_props"}

\* pickle.dumps of a GameState: the instance's fields as (name, value) pairs,
\* a dict written as its items
PickleFields(s) ==
    [i \in 1..Len(GameStateFields) |->
        LET f == GameStateFields[i]
        IN  <<f, IF f \in DictFields THEN {<<k, s[f][k]>> : k \in DOMAIN s[f]} ELSE s[f]>>]

\* Variant: the set of visited rooms is not written out.
PickleWithoutVisited(s) == PickleFields([s EXCEPT !.visited_rooms = {}])

Pickle(s) == PickleFields(s)

\* pickle.loads: the instance rebuilt from the pairs, each dict from its items
Unpickle(blob) ==
    [f \in {blob[i][1] : i \in DOMAIN blob} |->
        LET v == blob[CHOOSE i \in DOMAIN blob : blob[i][1] = f][2]
        IN  IF f \in DictFields
            THEN [k \in {item[1] : item \in v} |->
                     (CHOOSE item \in v : item[1] = k)[2]]
            ELSE v]

Compress(data) == <<"zlib", data>>

Decompress(data) == data[2]

\* the row save() writes for the player
SavedGame(s) ==
    [state_blob |-> Compress(Pickle(s)),
     turns |-> s.turns,
     score |-> CalculateScore(s),
     is_finished |-> s.is_finished]

\* load_or_create over the player's rows: the session's saved_game and state
LoadOrCreate(rows) ==
    IF rows # NoSavedGame /\ ~rows[1].is_finished
    THEN [saved_game |-> <<rows[1]>>,
          state |-> Unpickle(Decompress(rows[1].state_blob))]
    ELSE [saved_game |-> None, state |-> NewGameState]

\* save(): a session without saved_game inserts a row, and the insert fails on
\* the unique player_id when the player has a row already; otherwise the row
\* is updated
Save(saved_game, s, rows) ==
    IF saved_game = None
    THEN IF rows = NoSavedGame
         THEN [rows |-> <<SavedGame(s)>>, raised |-> FALSE]
         ELSE [rows |-> rows, raised |-> TRUE]
    ELSE [rows |-> <<SavedGame(s)>>, raised |-> FALSE]

(***************************************************************************)
(* loader.py: load_world over a data file. A file is the sequence of its   *)
(* lines and a line the sequence of its tab-separated fields, each field   *)
(* typed as _parse_fields types it: an integer or a string.                *)
(***************************************************************************)
IntField(n) == <<"int", n>>

StrField(t) == <<"str", t>>

IsInt(field) == field[1] = "int"

\* f.readline() at the end of the file: the empty string, one empty field
EofLine == <<StrField("")>>

\* _parse_fields of a line: the fields, integers where the text is digits
ParseFields(line) == line

\* int(line.strip()) succeeds on a line that is one integer
IsNumericHeader(line) == Len(line) = 1 /\ IsInt(line[1])

BlankRoom(n) ==
    [number |-> n, long_description |-> "", short_description |-> "",
     is_light |-> FALSE, liquid |-> None, is_forbidden_to_pirate |-> FALSE,
     hint_number |-> None, travel_table |-> <<>>]

Hint(n) == [number |-> n, rooms |-> <<>>]

BlankObj(n) ==
    [number |-> n, names |-> <<>>, inventory_message |-> "", messages |-> <<>>,
     initial_rooms |-> <<>>, is_treasure |-> FALSE, is_fixed |-> FALSE]

EmptyWorld ==
    [rooms |-> <<>>, hints |-> <<>>, objects |-> <<>>, vocabulary |-> <<>>,
     object_names |-> <<>>]

EnsureObj(objects, n) == IF Has(objects, n) THEN objects ELSE Put(objects, n, BlankObj(n))

EnsureRoom(rooms, n) == IF Has(rooms, n) THEN rooms ELSE Put(rooms, n, BlankRoom(n))

EnsureHint(hints, n) == IF Has(hints, n) THEN hints ELSE Put(hints, n, Hint(n))

\* what a parser call leaves: the world, and the exception it raised if any
Parsed(world) == [world |-> world, raised |-> ""]

Failed(world, error) == [world |-> world, raised |-> error]

Spaces(n) == IF n = 0 THEN "" ELSE SubSeq("        ", 1, n)

\* _expand_tabs: next(it) on no segments stops the iteration; one segment is
\* returned as it is; more are joined at 8-column tab stops, which needs
\* every segment to be a string
ExpandTabs(segments) ==
    IF Len(segments) = 0 THEN [raised |-> "StopIteration", text |-> StrField("")]
    ELSE IF Len(segments) = 1 THEN [raised |-> "", text |-> segments[1]]
    ELSE IF \E i \in 1..Len(segments) : IsInt(segments[i])
    THEN [raised |-> "TypeError", text |-> StrField("")]
    ELSE LET RECURSIVE Join(_, _)
             Join(line, i) ==
                 IF i > Len(segments) THEN line
                 ELSE Join(line \o Spaces(8 - (Len(line) % 8)) \o segments[i][2], i + 1)
         IN  [raised |-> "", text |-> StrField(Join(segments[1][2], 2))]

ParseSection1(world, fields) ==
    LET n == fields[1]
        rooms == EnsureRoom(world.rooms, n)
        made == [world EXCEPT !.rooms = rooms]
        text == ExpandTabs(Tail(fields))
    IN  IF text.raised # "" THEN Failed(made, text.raised)
        ELSE IF IsInt(text.text) THEN Failed(made, "AttributeError")
        ELSE IF SubSeq(text.text[2], 1, 3) = ">$<" THEN Parsed(made)
        ELSE Parsed([made EXCEPT !.rooms[n].long_description =
                        IF @ # "" THEN @ \o "\n" \o text.text[2] ELSE text.text[2]])

ParseSection2(world, fields) ==
    LET n == fields[1]
        rooms == EnsureRoom(world.rooms, n)
        made == [world EXCEPT !.rooms = rooms]
        lined == IF rooms[n].short_description # ""
                 THEN [made EXCEPT !.rooms[n].short_description = @ \o "\n"]
                 ELSE made
    IN  IF Len(fields) < 2 THEN Failed(lined, "IndexError")
        ELSE IF IsInt(fields[2]) THEN Failed(lined, "TypeError")
        ELSE Parsed([lined EXCEPT !.rooms[n].short_description = @ \o fields[2][2]])

\* Variant: the boundary between "carrying" and "carrying or in the room
\* with" is drawn below 200 instead of above it.
ConditionOfShifted(m) ==
    IF m = 0 THEN Unconditional
    ELSE IF 0 < m /\ m < 100 THEN PercentChance(m)
    ELSE IF m = 100 THEN NotDwarf
    ELSE IF 100 < m /\ m < 200 THEN Carrying(m % 100)
    ELSE IF 200 <= m /\ m <= 300 THEN CarryingOrInRoomWith(m % 100)
    ELSE PropNotEqual(m % 100, (m \div 100) - 3)

\* the match statement of _parse_section3 on m, with mh, mm = divmod(m, 100)
ConditionOf(m) ==
    LET mh == m \div 100
        mm == m % 100
    IN  IF m = 0 THEN Unconditional
        ELSE IF 0 < m /\ m < 100 THEN PercentChance(m)
        ELSE IF m = 100 THEN NotDwarf
        ELSE IF 100 < m /\ m <= 200 THEN Carrying(mm)
        ELSE IF 200 < m /\ m <= 300 THEN CarryingOrInRoomWith(mm)
        ELSE PropNotEqual(mm, mh - 3)

\* load_world's last_travel before the first travel line
NoTravel == <<IntField(0), <<IntField(0)>>>>

\* _parse_section3: the World, the exception raised if any, and last_travel
ParseSection3(world, fields, last_travel) ==
    LET x == fields[1]
        y == fields[2]
        given == SubSeq(fields, 3, Len(fields))
        continued == last_travel[1] = x /\ last_travel[2][1] = given[1]
        verbs == IF continued THEN last_travel[2] ELSE given
        kept == IF continued THEN last_travel ELSE <<x, given>>
        m == y[2] \div 1000
        n == y[2] % 1000
        move == Move(verbs, ConditionOf(m), IF n <= 500 THEN n ELSE -(n - 500),
                     Len(verbs) = 1 /\ verbs[1] = IntField(1))
        rooms == EnsureRoom(world.rooms, x)
    IN  IF Len(fields) < 2
        THEN [world |-> world, raised |-> "IndexError", last_travel |-> last_travel]
        ELSE IF last_travel[1] = x /\ Len(given) = 0
        THEN [world |-> world, raised |-> "IndexError", last_travel |-> last_travel]
        ELSE IF ~IsInt(y)
        THEN [world |-> world, raised |-> "TypeError", last_travel |-> kept]
        ELSE [world |-> [world EXCEPT !.rooms = [rooms EXCEPT ![x].travel_table =
                                                    Append(@, move)]],
              raised |-> "", last_travel |-> kept]

WORD_KINDS == <<"motion", "noun", "verb", "special">>

\* str(field)
Str(field) == IF IsInt(field) THEN ToString(field[2]) ELSE field[2]

\* a Python truth test of a field: a non-zero integer, a non-empty string
TruthyField(field) == IF IsInt(field) THEN field[2] # 0 ELSE field[2] # ""

ParseSection4(world, fields) ==
    IF Len(fields) < 2 THEN Failed(world, "IndexError")
    ELSE IF ~IsInt(fields[1]) THEN Failed(world, "TypeError")
    ELSE LET n == fields[1][2]
             lowered == Lower(Str(fields[2]))
             text == Get(LONG_WORDS, lowered, lowered)
             index == n \div 1000
         IN  IF index > 3 \/ index < -4 THEN Failed(world, "IndexError")
             ELSE LET kind == WORD_KINDS[((index + 4) % 4) + 1]
                      worded == [world EXCEPT
                                    !.vocabulary = Put(@, text, [text |-> text, kind |-> kind,
                                                                 number |-> n])]
                      obj_n == IntField(n % 1000)
                      objects == EnsureObj(world.objects, obj_n)
                      obj == objects[obj_n]
                      known == \E i \in 1..Len(obj.names) : obj.names[i] = text
                      truncated == NormalizeWord(text)
                      named == Put(world.object_names, text, n % 1000)
                  IN  IF kind # "noun" THEN Parsed(worded)
                      ELSE Parsed([worded EXCEPT
                              !.objects = Put(objects, obj_n,
                                  [obj EXCEPT !.names = IF known THEN @ ELSE Append(@, text),
                                              !.is_treasure = (n % 1000) >= 50]),
                              !.object_names = IF Has(named, truncated) THEN named
                                               ELSE Put(named, truncated, n % 1000)])

\* current_obj is the object the last inventory line named (0 before any)
ParseSection5(world, fields, current_obj) ==
    LET text == ExpandTabs([i \in 1..(Len(fields) - 1) |-> StrField(Str(fields[i + 1]))])
        n == fields[1]
    IN  IF text.raised # "" THEN Failed(world, text.raised) @@ [current_obj |-> current_obj]
        ELSE IF ~IsInt(n) THEN Failed(world, "TypeError") @@ [current_obj |-> current_obj]
        ELSE IF 1 <= n[2] /\ n[2] <= 99
        THEN LET objects == EnsureObj(world.objects, n)
             IN  Parsed([world EXCEPT !.objects =
                            Put(objects, n, [objects[n] EXCEPT !.inventory_message = text.text[2]])])
                 @@ [current_obj |-> n[2]]
        ELSE LET obj_n == IntField(current_obj)
                 objects == EnsureObj(world.objects, obj_n)
                 obj == objects[obj_n]
                 st == n[2] \div 100
                 shown == IF SubSeq(text.text[2], 1, 3) = ">$<" THEN "" ELSE text.text[2]
             IN  Parsed([world EXCEPT !.objects =
                            Put(objects, obj_n,
                                [obj EXCEPT !.messages =
                                    IF Has(@, st) THEN Put(@, st, @[st] \o "\n" \o shown)
                                    ELSE Put(@, st, shown)])])
                 @@ [current_obj |-> current_obj]

ParseSection7(world, fields) ==
    IF Len(fields) < 2 THEN Failed(world, "IndexError")
    ELSE LET n == fields[1]
             room_n == fields[2]
             objects == EnsureObj(world.objects, n)
             placed == IF TruthyField(room_n)
                       THEN [world EXCEPT
                               !.objects = Put(objects, n,
                                   [objects[n] EXCEPT !.initial_rooms = Append(@, room_n)]),
                               !.rooms = EnsureRoom(@, room_n)]
                       ELSE [world EXCEPT !.objects = objects]
         IN  IF Len(fields) <= 2 THEN Parsed(placed)
             ELSE LET fixed == fields[3] IN
                  IF fixed = IntField(-1)
                  THEN Parsed([placed EXCEPT !.objects[n].is_fixed = TRUE])
                  ELSE IF ~IsInt(fixed) THEN Failed(placed, "TypeError")
                  ELSE IF fixed[2] > 0
                  THEN Parsed([placed EXCEPT !.objects[n].initial_rooms = Append(@, fixed),
                                             !.rooms = EnsureRoom(@, fixed)])
                  ELSE Parsed(placed)

ParseSection8(world, fields) == Parsed(world)

BIT_FLAG_SETTERS == {IntField(0), IntField(1), IntField(2), IntField(3)}

SetBitFlag(room, bit) ==
    CASE bit = IntField(0) -> [room EXCEPT !.is_light = TRUE]
      [] bit = IntField(1) -> [room EXCEPT !.liquid = <<22>>]
      [] bit = IntField(2) -> [room EXCEPT !.liquid = <<21>>]
      [] bit = IntField(3) -> [room EXCEPT !.is_forbidden_to_pirate = TRUE]

RECURSIVE FlagRooms(_, _, _)
FlagRooms(world, bit, room_numbers) ==
    IF room_numbers = <<>> THEN world
    ELSE LET room_n == Head(room_numbers)
             rooms == EnsureRoom(world.rooms, room_n)
             next == IF bit \in BIT_FLAG_SETTERS
                     THEN [world EXCEPT !.rooms = Put(rooms, room_n, SetBitFlag(rooms[room_n], bit))]
                     ELSE LET hints == EnsureHint(world.hints, bit)
                              hint == hints[bit]
                              listed == \E i \in 1..Len(hint.rooms) : hint.rooms[i] = room_n
                          IN  [world EXCEPT
                                 !.hints = Put(hints, bit,
                                     [hint EXCEPT !.rooms =
                                         IF listed THEN @ ELSE Append(@, room_n)]),
                                 !.rooms = Put(rooms, room_n,
                                     [rooms[room_n] EXCEPT !.hint_number = <<bit>>])]
         IN  FlagRooms(next, bit, Tail(room_numbers))

ParseSection9(world, fields) == Parsed(FlagRooms(world, fields[1], Tail(fields)))

\* the sections the files of the model hold; load_world knows 1..12
SectionParsers == {1, 2, 4, 5, 7, 8, 9}

\* the parser of a section applied to a line: the World, the exception
\* raised if any, and load_world's current_obj
ParseSection(l, fields) ==
    LET kept == [current_obj |-> l.current_obj]
    IN  CASE l.parser = 1 -> ParseSection1(l.world, fields) @@ kept
          [] l.parser = 2 -> ParseSection2(l.world, fields) @@ kept
          [] l.parser = 4 -> ParseSection4(l.world, fields) @@ kept
          [] l.parser = 5 -> ParseSection5(l.world, fields, l.current_obj)
          [] l.parser = 7 -> ParseSection7(l.world, fields) @@ kept
          [] l.parser = 8 -> ParseSection8(l.world, fields) @@ kept
          [] l.parser = 9 -> ParseSection9(l.world, fields) @@ kept

\* load_world just called on a file: nothing read, the World empty, the
\* section loop about to read a header (parser 0: not inside _read_section)
Loading(file) ==
    [file |-> file, pos |-> 0, world |-> EmptyWorld, current_obj |-> 0, parser |-> 0,
     status |-> "running", error |-> ""]

Raise(l, error) == [l EXCEPT !.status = "raised", !.error = error]

\* one turn of load_world's loop: read a header line, return at the end of
\* the file or at 0, skip a number without a parser, enter _read_section
ReadHeader(l) ==
    IF l.pos >= Len(l.file) THEN [l EXCEPT !.status = "returned"]
    ELSE LET line == l.file[l.pos + 1]
             read == [l EXCEPT !.pos = @ + 1]
         IN  IF ~IsNumericHeader(line) THEN Raise(read, "ValueError")
             ELSE IF line[1][2] = 0 THEN [read EXCEPT !.status = "returned"]
             ELSE IF line[1][2] \notin 1..12 THEN read
             ELSE [read EXCEPT !.parser = line[1][2]]

\* one turn of _read_section's loop: read a line, leave at the sentinel,
\* hand anything else to the parser
ReadSectionLine(l) ==
    LET atEnd == l.pos >= Len(l.file)
        fields == ParseFields(IF atEnd THEN EofLine ELSE l.file[l.pos + 1])
        read == IF atEnd THEN l ELSE [l EXCEPT !.pos = @ + 1]
    IN  IF fields[1] = IntField(-1) THEN [read EXCEPT !.parser = 0]
        ELSE LET done == ParseSection(l, fields)
                 parsed == [read EXCEPT !.world = done.world, !.current_obj = done.current_obj]
             IN  IF done.raised # "" THEN Raise(parsed, done.raised) ELSE parsed

(***************************************************************************)
(* Inputs                                                                  *)
(***************************************************************************)
Commands ==
    { <<>>, <<"xyzflurble">>, <<"LOOK">>, <<"inventory">>, <<"score">>, <<"Quit">>,
      <<"on">>, <<"off">>, <<"in">>, <<"out">>, <<"xyzzy">>, <<"plugh">>,
      <<"n">>, <<"s">>, <<"u">>, <<"back">>,
      <<"take", "lamp">>, <<"take", "keys">>, <<"get", "bottle">>,
      <<"take", "water">>, <<"drop", "keys">>, <<"keys">>, <<"take", "silver">> }

StayCommands == { <<>>, <<"xyzflurble">>, <<"inventory">>, <<"nothing">> }

EndCommands ==
    { <<>>, <<"fee">>, <<"xyzzy">>, <<"plugh">>, <<"plover">>, <<"say", "xyzzy">>,
      <<"say", "plover">>, <<"blast">>, <<"take", "rod">>, <<"sw">>, <<"back">> }

ClosingCommands == { <<>>, <<"inventory">>, <<"n">>, <<"s">>, <<"take", "silver">> }

(***************************************************************************)
(* Specifications                                                          *)
(***************************************************************************)
\* one call of handle_command
Call(cmds, limit) ==
    /\ Elapsed(state) < limit
    /\ \E cmd \in cmds : \E o \in HandleCommand(state, cmd) :
          /\ state' = o.st
          /\ input' = cmd
          /\ response' = o.out
          /\ death' = o.died
    /\ score' = NoScore
    /\ UNCHANGED <<saved, loader, requests>>

\* one /cmd request: load_or_create, process_command, save
CmdRequest(cmds, limit) ==
    LET game == LoadOrCreate(saved)
    IN  /\ Elapsed(game.state) < limit
        /\ IF game.state.is_finished
           THEN /\ state' = game.state
                /\ input' = <<>>
                /\ response' = <<"The game is over.">>
                /\ death' = <<>>
                /\ saved' = saved
           ELSE \E cmd \in cmds : \E o \in HandleCommand(game.state, cmd) :
                  LET written == Save(game.saved_game, o.st, saved)
                  IN  /\ state' = o.st
                      /\ input' = cmd
                      /\ response' = IF written.raised THEN <<INTEGRITY_ERROR>> ELSE o.out
                      /\ death' = o.died
                      /\ saved' = written.rows
        /\ score' = NoScore
        /\ UNCHANGED <<loader, requests>>

\* one call of calculate_score between two commands
ScoreQuery ==
    /\ state' = ScoreCall(state).st
    /\ score' = <<ScoreCall(state).value>>
    /\ UNCHANGED <<input, response, death, saved, loader, requests>>

Start(states) ==
    /\ state \in states
    /\ input = <<>>
    /\ response = None
    /\ death = <<>>
    /\ score = NoScore
    /\ saved = NoSavedGame
    /\ requests = NoRequests
    /\ loader = NotLoading

Command == Call(Commands, MaxTurns)

Init == Start({NewGameState, DeepStream, ReadyToClose(FALSE, LAMP_LIFE), AlmostReady})

Next == Command \/ ScoreQuery

Spec == Init /\ [][Next]_vars

ClosingCommand == Call(ClosingCommands, MaxClosingTurns)

InitClosing == Start({ReadyToClose(FALSE, LAMP_LIFE), ReadyToClose(TRUE, LAMP_LIFE), AlmostReady})

NextClosing == ClosingCommand

SpecClosing == InitClosing /\ [][NextClosing]_vars

StayCommand == Call(StayCommands, MaxClosingTurns)

InitStay == Start(ReadyStates)

NextStay == StayCommand

\* The player keeps typing: a call that can be made is eventually made.
SpecStay == InitStay /\ [][NextStay]_vars /\ WF_vars(NextStay)

EndCommand == Call(EndCommands, MaxEndTurns)

InitEnd == Start({ClosingAtY2})

NextEnd == EndCommand

SpecEnd == InitEnd /\ [][NextEnd]_vars

InitWin == Start({StoredAtY2})

NextWin == EndCommand

SpecWin == InitWin /\ [][NextWin]_vars

InitScore == Start(ScoreInputs)

NextScore == ScoreQuery

SpecScore == InitScore /\ [][NextScore]_vars

TravelCommands ==
    { <<"out">>, <<"u">>, <<"in">>, <<"plover">>, <<"s">>, <<"n">>, <<"sw">>,
      <<"open", "grate">>, <<"close", "grate">>, <<"take", "emerald">>,
      <<"xyzzy">>, <<"take", "rod">>, <<"take", "keys">>, <<"take", "sword">> }

TravelCommand == Call(TravelCommands, MaxTravelTurns)

InitTravel == Start({BelowGrate, InPlover, InDebris})

NextTravel == TravelCommand

SpecTravel == InitTravel /\ [][NextTravel]_vars

FeeCommands ==
    { <<"fee">>, <<"fum">>, <<"fie">>, <<"foe">>, <<"foo">>, <<"look">>,
      <<"take", "lamp">> }

FeeCommand == Call(FeeCommands, MaxFeeTurns)

InitFee == Start({EggsCarried})

NextFee == FeeCommand

SpecFee == InitFee /\ [][NextFee]_vars

CarryCommands ==
    { <<"take", "water">>, <<"fill", "bottle">>, <<"drop", "keys">>, <<"take", "keys">>,
      <<"drop", "bottle">>, <<"drop", "food">>, <<"take", "food">>,
      <<"inventory">>, <<"fill">> }

CarryCommand == Call(CarryCommands, MaxCarryTurns)

InitCarry == Start({HandsFull})

NextCarry == CarryCommand

SpecCarry == InitCarry /\ [][NextCarry]_vars

VerbCommands ==
    { <<"in">>, <<"take", "keys">>, <<"take", "food">>,
      <<"open", "grate">>, <<"close", "grate">>, <<"open", "clam">>, <<"unlock", "chain">>,
      <<"attack", "dragon">>, <<"kill", "bird">>, <<"feed", "bear">>, <<"feed", "snake">>,
      <<"open", "door">>, <<"feed">> }

VerbCommand == Call(VerbCommands, MaxVerbTurns)

InitVerbs == Start({NewGameState, DeepStream, PirateHere})

NextVerbs == VerbCommand

SpecVerbs == InitVerbs /\ [][NextVerbs]_vars

SessionCommands ==
    { <<>>, <<"in">>, <<"out">>, <<"s">>, <<"LOOK">>, <<"Quit">>,
      <<"take", "lamp">>, <<"take", "keys">>, <<"drop", "keys">> }

SessionCommand == CmdRequest(SessionCommands, MaxSessionTurns)

\* a player without a saved game, or one who saved deep in the cave
InitSession ==
    /\ state \in {NewGameState, DeepStream}
    /\ saved = IF state = NewGameState THEN NoSavedGame ELSE <<SavedGame(state)>>
    /\ requests = NoRequests
    /\ input = <<>>
    /\ response = None
    /\ death = <<>>
    /\ score = NoScore
    /\ loader = NotLoading

NextSession == SessionCommand

SpecSession == InitSession /\ [][NextSession]_vars

\* /play: get_game, then save() of the state as loaded, then the play view
PlayRequest ==
    LET game == LoadOrCreate(saved)
        written == Save(game.saved_game, game.state, saved)
    IN  /\ state' = game.state
        /\ input' = <<"/play">>
        /\ response' = IF written.raised THEN <<INTEGRITY_ERROR>>
                       ELSE <<GetRoomDescription(game.state)>>
        /\ death' = <<>>
        /\ saved' = written.rows
        /\ score' = NoScore
        /\ UNCHANGED <<loader, requests>>

InitReplay == InitSession

NextReplay == SessionCommand \/ PlayRequest

SpecReplay == InitReplay /\ [][NextReplay]_vars

\* the requests of one player that may be in flight together
RequestIds == 1..MaxRequests

\* a request that has not reached get_game
Waiting == [pc |-> "waiting", saved_game |-> None, state |-> <<>>]

OverlapCommands == { <<"look">>, <<"in">>, <<"s">>, <<"take", "keys">>, <<"Quit">> }

\* get_game of request r: load_or_create reads the player's row
GetGame(r) ==
    /\ requests[r].pc = "waiting"
    /\ LET game == LoadOrCreate(saved)
       IN  requests' = [requests EXCEPT ![r] =
               [pc |-> "loaded", saved_game |-> game.saved_game, state |-> game.state]]
    /\ UNCHANGED <<state, input, response, death, score, saved, loader>>

\* the rest of /cmd, /go or /look for request r: process_command on the
\* session's own GameState, then save() on the row as it is by now
ProcessAndSave(r) ==
    /\ requests[r].pc = "loaded"
    /\ LET game == requests[r]
       IN  IF game.state.is_finished
           THEN /\ state' = game.state
                /\ input' = <<>>
                /\ response' = <<"The game is over.">>
                /\ death' = <<>>
                /\ saved' = saved
                /\ requests' = [requests EXCEPT ![r].pc = "answered"]
           ELSE \E cmd \in OverlapCommands : \E o \in HandleCommand(game.state, cmd) :
                  LET written == Save(game.saved_game, o.st, saved)
                  IN  /\ state' = o.st
                      /\ input' = cmd
                      /\ response' = IF written.raised THEN <<INTEGRITY_ERROR>> ELSE o.out
                      /\ death' = o.died
                      /\ saved' = written.rows
                      /\ requests' = [requests EXCEPT
                            ![r].pc = IF written.raised THEN "failed" ELSE "saved",
                            ![r].state = o.st]
    /\ score' = NoScore
    /\ UNCHANGED loader

\* a player without a saved game, or one who saved deep in the cave, and
\* requests on their way
InitOverlap ==
    /\ state \in {NewGameState, DeepStream}
    /\ saved = IF state = NewGameState THEN NoSavedGame ELSE <<SavedGame(state)>>
    /\ requests = [r \in RequestIds |-> Waiting]
    /\ input = <<>>
    /\ response = None
    /\ death = <<>>
    /\ score = NoScore
    /\ loader = NotLoading

NextOverlap == \E r \in RequestIds : GetGame(r) \/ ProcessAndSave(r)

SpecOverlap == InitOverlap /\ [][NextOverlap]_vars

\* lines of a data file: section headers (13 has no parser), the end mark,
\* the sentinel, a blank line, a word, and two data lines
Lines ==
    { <<IntField(1)>>, <<IntField(2)>>, <<IntField(8)>>, <<IntField(9)>>, <<IntField(13)>>,
      <<IntField(0)>>, <<IntField(-1)>>, <<StrField("")>>, <<StrField("x")>>,
      <<IntField(1), StrField("Hello")>>, <<IntField(0), IntField(1)>> }

Files == UNION {[1..n -> Lines] : n \in 0..MaxLines}

LoadHeader ==
    /\ loader # NotLoading
    /\ loader.status = "running"
    /\ loader.parser = 0
    /\ loader' = ReadHeader(loader)
    /\ UNCHANGED <<state, input, response, death, score, saved, requests>>

ReadLine ==
    /\ loader # NotLoading
    /\ loader.status = "running"
    /\ loader.parser # 0
    /\ loader' = ReadSectionLine(loader)
    /\ UNCHANGED <<state, input, response, death, score, saved, requests>>

\* lines of a data file about objects: the headers of the vocabulary (4),
\* object messages (5) and object placement (7) sections, the sentinel, the
\* end mark, the noun "gold" for object 50, and lines naming objects 50 and 1
ObjectLines ==
    { <<IntField(4)>>, <<IntField(5)>>, <<IntField(7)>>, <<IntField(-1)>>, <<IntField(0)>>,
      <<IntField(1050), StrField("gold")>>, <<IntField(50), IntField(18)>>,
      <<IntField(1), IntField(3)>> }

ObjectFiles == UNION {[1..n -> ObjectLines] : n \in 0..MaxObjectLines}

InitObjects ==
    /\ loader \in {Loading(file) : file \in ObjectFiles}
    /\ state = NewGameState
    /\ input = <<>>
    /\ response = None
    /\ death = <<>>
    /\ score = NoScore
    /\ saved = NoSavedGame
    /\ requests = NoRequests

InitLoad ==
    /\ loader \in {Loading(file) : file \in Files}
    /\ state = NewGameState
    /\ input = <<>>
    /\ response = None
    /\ death = <<>>
    /\ score = NoScore
    /\ saved = NoSavedGame
    /\ requests = NoRequests

NextLoad == LoadHeader \/ ReadLine

SpecLoad == InitLoad /\ [][NextLoad]_vars

\* travel codes: each class of condition at and between its limits, with
\* destinations that are rooms, special moves and messages
TravelCodes ==
    { 5, 500, 501, 593, 1033, 50005, 99302, 100015, 101020, 150020, 200999,
      201001, 250500, 300501, 301008, 311028, 412065, 999000 }

\* lines of the travel section: room, code, verbs
TravelRows ==
    { <<IntField(9), IntField(y)>> \o verbs :
        y \in TravelCodes, verbs \in {<<IntField(1)>>, <<IntField(11), IntField(29)>>} }

\* the travel section being parsed: the rows, how many were read, the World
\* and last_travel
ReadingTravel(rows) ==
    [rows |-> rows, pos |-> 0, world |-> EmptyWorld, last_travel |-> NoTravel, error |-> ""]

\* one line of the travel section handed to _parse_section3
ParseTravelRow ==
    /\ loader.pos < Len(loader.rows)
    /\ loader.error = ""
    /\ LET done == ParseSection3(loader.world, loader.rows[loader.pos + 1], loader.last_travel)
       IN  loader' = [loader EXCEPT !.pos = @ + 1, !.world = done.world,
                                    !.last_travel = done.last_travel,
                                    !.error = done.raised]
    /\ UNCHANGED <<state, input, response, death, score, saved, requests>>

InitRows ==
    /\ loader \in {ReadingTravel(rows) : rows \in UNION {[1..k -> TravelRows] : k \in 1..MaxRows}}
    /\ state = NewGameState
    /\ input = <<>>
    /\ response = None
    /\ death = <<>>
    /\ score = NoScore
    /\ saved = NoSavedGame
    /\ requests = NoRequests

NextRows == ParseTravelRow

SpecRows == InitRows /\ [][NextRows]_vars

\* lines of a data file about room flags: the header of section 9, rows for
\* bit 0 (lit), bit 1 and bit 2 (liquids), the sentinel and the end mark
FlagLines ==
    { <<IntField(9)>>, <<IntField(-1)>>, <<IntField(0)>>,
      <<IntField(0), IntField(3)>>, <<IntField(1), IntField(3)>>,
      <<IntField(2), IntField(24)>>, <<IntField(1), IntField(24), IntField(3)>> }

FlagFiles == UNION {[1..n -> FlagLines] : n \in 0..MaxFlagLines}

InitFlags ==
    /\ loader \in {Loading(file) : file \in FlagFiles}
    /\ state = NewGameState
    /\ input = <<>>
    /\ response = None
    /\ death = <<>>
    /\ score = NoScore
    /\ saved = NoSavedGame
    /\ requests = NoRequests

NextFlags == LoadHeader \/ ReadLine

SpecFlags == InitFlags /\ [][NextFlags]_vars

NextObjects == LoadHeader \/ ReadLine

SpecObjects == InitObjects /\ [][NextObjects]_vars

(***************************************************************************)
(* Properties                                                              *)
(***************************************************************************)
\* the step is a call of handle_command (a call of calculate_score leaves a
\* score behind)
Called == score' = NoScore

\* text appears as a paragraph of the response
Contains(out, text) == \E i \in 1..Len(out) : out[i] = text

\* C1: every call of handle_command increases state.turns by exactly 1,
\* whatever the input and whatever the outcome.
C1_TurnsIncrement == [][Called => state'.turns = state.turns + 1]_vars

\* C1: a call that kills the player for the last time, made as the second call
\* since the start, has been counted as well.
C1_Witness == state.is_finished /\ death # <<>> /\ Elapsed(state) = 2

Msg129 == Get(Messages, 129, "A sepulchral voice says, \"Cave closing soon.\"")
Msg132 == Get(Messages, 132, "The cave is now closed.")

\* C2 (first half): with every treasure found and the player staying in a
\* qualifying deep room, the cave eventually starts closing and later closes.
C2_Closes == (<>state.is_closing) /\ (state.is_closing ~> state.is_closed)

\* C2 (second half): the response of a call carries the announcement 129
\* exactly when that call starts the closing, and the announcement 132 exactly
\* when that call closes the cave.
C2_Announced ==
    [][ /\ (~state.is_closing /\ ~state.is_closed /\ state'.is_closing)
               <=> Contains(response', Msg129)
        /\ (~state.is_closed /\ state'.is_closed) <=> Contains(response', Msg132) ]_vars

\* C2: starting with all 15 treasures found in a qualifying deep room,
\* repeating commands that do not move the player eventually sets is_closing,
\* later is_closed, and each transition puts its announcement into exactly one
\* response.
C2_ClosingSequence == C2_Closes /\ C2_Announced

\* the closing tick of a call made in state s does nothing
ClosingIdle(s) ==
    \/ s.is_closed
    \/ s.is_finished
    \/ /\ ~s.is_closing
       /\ \/ Cardinality(TreasureIds \cap DOMAIN s.object_props) < 15
          \/ s.current_room < 15
          \/ s.current_room = 33

Unknown == input' = <<"xyzflurble">>

AtHand(s, obj_n) ==
    \/ GetIs(s.object_locations, obj_n, s.current_room)
    \/ /\ obj_n \in {WATER, OIL}
       /\ s.current_room \in RoomIds
       /\ Rooms[s.current_room].liquid = obj_n

TakesAtHand(s, cmd) ==
    \/ /\ Len(cmd) = 2
       /\ cmd[1] \in {"take", "get", "carry"}
       /\ Has(ObjectNames, NormalizeWord(cmd[2]))
       /\ AtHand(s, ObjectNames[NormalizeWord(cmd[2])])
    \/ /\ Len(cmd) = 1
       /\ Has(ObjectNames, NormalizeWord(cmd[1]))
       /\ AtHand(s, ObjectNames[NormalizeWord(cmd[1])])

\* C4: whenever the current room is dark, a take command (explicit or by the
\* bare noun) for an object at hand, water included, returns the "too dark"
\* response and leaves object_locations unchanged.
C4_DarkTake ==
    [][(Called /\ IsDark(state) /\ TakesAtHand(state, input')) =>
          /\ response' = <<MSG_TOO_DARK>>
          /\ state'.object_locations = state.object_locations]_vars

\* C4: water has been taken from the stream in the dark: the bottle is full
\* and the water is carried.
C4_WaterTaken ==
    /\ input = <<"take", "water">>
    /\ response = <<"Your bottle is now full.">>
    /\ IsDark(state)
    /\ IsCarrying(state, WATER)

\* C5: a call made with the lamp on and lamp_turns = 1 leaves lamp_on false
\* and lamp_turns 0, and if the room is then dark the response contains both
\* the "ran out of power" text and the "pitch dark" text.
C5_LampRunsOut ==
    [][(Called /\ state.lamp_on /\ state.lamp_turns = 1) =>
          /\ ~state'.lamp_on
          /\ state'.lamp_turns = 0
          /\ IsDark(state') =>
                (Contains(response', MSG_RAN_OUT) /\ Contains(response', MSG_PITCH_DARK))]_vars

\* C5: the lamp has just run out in a dark room.
C5_Witness ==
    /\ Contains(response, MSG_RAN_OUT)
    /\ state.lamp_turns = 0
    /\ ~state.lamp_on
    /\ IsDark(state)

C7_Tier(obj_id) == IF obj_id < 55 THEN 12 ELSE IF obj_id = 55 THEN 14 ELSE 16

C7_Treasure(s, obj_id) ==
    IF /\ obj_id \in DOMAIN s.object_props
       /\ s.object_props[obj_id] = 0
       /\ obj_id \in DOMAIN s.object_locations
       /\ s.object_locations[obj_id] = 3
    THEN C7_Tier(obj_id)
    ELSE IF obj_id \in DOMAIN s.object_props THEN 2 ELSE 0

C7_Bonus(s) ==
    IF ~s.is_closed THEN 0
    ELSE 25 + (IF s.bonus = 133 THEN 45 ELSE IF s.bonus = 134 THEN 30
               ELSE IF s.bonus = 135 THEN 25 ELSE 10)

C7_Expected(s) ==
    2 + SumOver(TreasureIds, [o \in TreasureIds |-> C7_Treasure(s, o)])
      + 10 * (s.max_deaths - s.deaths)
      + (IF s.gave_up THEN 0 ELSE 4)
      + (IF s.dwarf_stage > 0 THEN 25 ELSE 0)
      + (IF s.is_closing THEN 25 ELSE 0)
      + C7_Bonus(s)
      + (IF MAGAZINE \in DOMAIN s.object_locations /\ s.object_locations[MAGAZINE] = 108
         THEN 1 ELSE 0)
      - SumOver(s.hints_given \cap DOMAIN HintPenalty,
                [h \in s.hints_given \cap DOMAIN HintPenalty |-> HintPenalty[h]])

\* C7: calculate_score equals 2 + per treasure (2 if found, its tier value
\* 12/14/16 instead when deposited in room 3 with property 0) + 10 per unused
\* death + 4 if not gave_up + 25 if dwarf_stage > 0 + 25 if is_closing
\* + 25 + 45/30/25/10 by bonus code if is_closed + 1 for the magazine in room
\* 108 - the penalty of each hint given; a fresh game scores 36.
C7_ScoreFormula ==
    score # NoScore =>
        /\ score[1] = C7_Expected(state)
        /\ (state = NewGameState => score[1] = 36)

\* C7: a score has been computed for a closed cave with the chest deposited,
\* a life lost and a hint taken.
C7_Witness ==
    /\ score # NoScore
    /\ state.is_closed
    /\ GetIs(state.object_locations, CHEST, BUILDING)
    /\ GetIs(state.object_props, CHEST, 0)
    /\ state.deaths = 1
    /\ state.hints_given = {4, 7}

C9_Death ==
    death # <<>> =>
        LET before == death[1] IN
        /\ state.deaths = before.deaths + 1
        /\ IF state.deaths >= state.max_deaths
           THEN state.is_finished
           ELSE /\ state.current_room = 3
                /\ \A o \in DOMAIN before.object_locations :
                      before.object_locations[o] = 0 => state.object_locations[o] = 3
                /\ \A o \in DOMAIN state.object_locations : state.object_locations[o] # 0
                /\ ~state.lamp_on

\* C9: the player died carrying something and was brought back to life.
C9_Witness ==
    /\ death # <<>>
    /\ ~state.is_finished
    /\ \E o \in DOMAIN death[1].object_locations : death[1].object_locations[o] = 0

C10_Eligible(s) ==
    /\ Cardinality({o \in TreasureIds : o \in DOMAIN s.object_props}) >= 15
    /\ s.current_room >= 15
    /\ s.current_room # 33

\* C10: is_closing turns true only in a call at whose start 15 treasures have
\* a property and the room is >= 15 and not 33; clock1 is decremented only in
\* such calls; is_closed turns true only when is_closing was true.
C10_ClosingTrigger ==
    [][ /\ (~state.is_closing /\ state'.is_closing) => C10_Eligible(state)
        /\ (state'.clock1 # state.clock1) =>
              (state'.clock1 = state.clock1 - 1 /\ C10_Eligible(state) /\ Called)
        /\ (~state.is_closed /\ state'.is_closed) => state.is_closing ]_vars

\* C10: the cave is closing in a game whose last treasure, the silver, was
\* found in play and is still carried.
C10_Witness ==
    /\ state.is_closing
    /\ state.clock1 = 0
    /\ state.clock2 < CLOCK2_START
    /\ IsCarrying(state, SILVER)

\* the state a handler receives in a call made in state s: the turn counted
\* and both ticks done; the handler runs unless the lamp has just run out
AfterTicks(s) == TickClosing(TickLamp(IncTurns(s)).st).st

HandlerRuns(s) == ~Truthy(TickLamp(IncTurns(s)).msg)

\* C11: in every call in which the closing tick announces something (closing
\* started, cave closed), the response is the announcement followed by the
\* response to the input, for every input, the empty one included.
C11_AnnouncementPrefixed ==
    [][ /\ (~state.is_closing /\ ~state.is_closed /\ state'.is_closing) =>
              (Len(response') >= 2 /\ response'[1] = Msg129)
        /\ (~state.is_closed /\ state'.is_closed) =>
              (Len(response') >= 2 /\ response'[1] = Msg132) ]_vars

\* C11: the cave has closed on an empty input and the response is only the
\* request to repeat.
C11_Dropped ==
    /\ state.is_closed
    /\ Elapsed(state) = MaxClockLeft
    /\ input = <<>>
    /\ response = <<MSG_PARDON>>

\* C12: right after the cave-close event is_closed is true and is_closing
\* false, nothing is carried (what was carried lies in the room the player was
\* in), the lamp is in room 115 and on, grate, snake and bird are in room 116,
\* and the player is in room 115.
C12_AfterClose ==
    [][(~state.is_closed /\ state'.is_closed) =>
          LET held == TickLamp(IncTurns(state)).st
              ev == AfterTicks(state)
          IN  /\ ev.is_closed /\ ~ev.is_closing
              /\ state'.is_closed /\ ~state'.is_closing
              /\ \A o \in DOMAIN ev.object_locations : ev.object_locations[o] # CARRIED
              /\ \A o \in DOMAIN held.object_locations :
                    (held.object_locations[o] = CARRIED /\ o \notin {LAMP, GRATE, ROD2, BIRD, SNAKE}) =>
                        ev.object_locations[o] = held.current_room
              /\ ev.object_locations[LAMP] = 115
              /\ ev.lamp_on /\ ev.object_props[LAMP] = 1
              /\ ev.object_locations[GRATE] = 116
              /\ ev.object_locations[SNAKE] = 116
              /\ ev.object_locations[BIRD] = 116
              /\ ev.current_room = 115]_vars

\* C12: the cave has just closed on a player who carried the lamp and the
\* keys at Y2: the keys lie at Y2 and the player is in room 115.
C12_Witness ==
    /\ state.is_closed
    /\ Elapsed(state) = MaxClockLeft
    /\ state.current_room = 115
    /\ state.old_room = 33
    /\ GetIs(state.object_locations, KEYS, 33)

MagicWords == { <<"xyzzy">>, <<"plugh">>, <<"plover">>,
                <<"say", "xyzzy">>, <<"say", "plugh">>, <<"say", "plover">> }

\* C13: while is_closing is true no magic word (xyzzy, plugh, plover), typed
\* directly or through "say", moves the player: current_room is unchanged and
\* the response is the "This exit is closed" refusal.
C13_MagicBlocked ==
    [][(Called /\ state.is_closing /\ state'.is_closing /\ HandlerRuns(state)
          /\ input' \in MagicWords) =>
          /\ state'.current_room = state.current_room
          /\ Contains(response', MSG_EXIT_CLOSED)]_vars

\* C13: "plover" has taken the player from Y2 to the plover room while the
\* cave is closing.
C13_PloverMoved ==
    /\ state.is_closing
    /\ input = <<"plover">>
    /\ state.current_room = 100
    /\ state.old_room = 33

\* C14: blast sets is_finished and the bonus (133 in room 116, 134 in room
\* 115, 135 elsewhere) when the cave is closed and the second rod is carried
\* or in the room; in every other case it changes nothing.
C14_Blast ==
    [][(Called /\ HandlerRuns(state) /\ input' = <<"blast">>) =>
          LET ev == AfterTicks(state)
              rod == /\ ROD2 \in DOMAIN ev.object_locations
                     /\ ev.object_locations[ROD2] \in {CARRIED, ev.current_room}
          IN  IF ev.is_closed /\ rod
              THEN /\ state'.is_finished
                   /\ state'.bonus = (IF ev.current_room = 116 THEN 133
                                      ELSE IF ev.current_room = 115 THEN 134 ELSE 135)
              ELSE /\ state'.is_finished = state.is_finished
                   /\ state'.bonus = state.bonus
                   /\ state' = ev]_vars

\* C14: the rod has been set off outside the repository.
C14_Witness ==
    /\ input = <<"blast">>
    /\ state.is_finished
    /\ state.bonus = 135
    /\ state.current_room \notin {115, 116}

Ordinary == { <<<<"take", "lamp">>, LAMP>>, <<<<"take", "keys">>, KEYS>>,
              <<<<"get", "bottle">>, BOTTLE>>, <<<<"take", "silver">>, SILVER>> }

\* C16: taking an object that is not fixed, is not the bird, a liquid or the
\* bear and lies in the current room, when the room is not dark and fewer than
\* 7 objects are carried, makes it carried and answers "OK."; no other
\* object's location changes, and a treasure without a prop gets prop 0.
C16_Take ==
    [][(Called /\ HandlerRuns(state)) =>
          \A t \in Ordinary :
              LET ev == AfterTicks(state)
                  obj == t[2]
                  held == {o \in DOMAIN ev.object_locations :
                              ev.object_locations[o] = CARRIED}
              IN  (/\ input' = t[1]
                   /\ obj \in DOMAIN ev.object_locations
                   /\ ev.object_locations[obj] = ev.current_room
                   /\ ~Objects[obj].is_fixed
                   /\ ~IsDark(ev)
                   /\ Cardinality(held) < 7) =>
                      /\ state'.object_locations =
                            [o \in DOMAIN ev.object_locations |->
                                IF o = obj THEN CARRIED ELSE ev.object_locations[o]]
                      /\ response' = <<"OK.">>
                      /\ (Objects[obj].is_treasure /\ obj \notin DOMAIN ev.object_props) =>
                            (/\ obj \in DOMAIN state'.object_props
                             /\ state'.object_props[obj] = 0)]_vars

\* C16: the silver bars, a treasure, have just been picked up and marked found.
C16_Witness ==
    /\ input = <<"take", "silver">>
    /\ response = <<"OK.">>
    /\ GetIs(state.object_locations, SILVER, CARRIED)
    /\ GetIs(state.object_props, SILVER, 0)
    /\ Elapsed(state) = 1
    /\ state.lamp_on

\* C17: moving into a room that is not dark and was never visited returns the
\* room's long description.
C17_FirstVisitLong ==
    [][(Called /\ HandlerRuns(state) /\ death' = <<>>) =>
          LET ev == AfterTicks(state)
          IN  (/\ state'.current_room # ev.current_room
               /\ state'.current_room \notin ev.visited_rooms
               /\ state'.current_room \in DOMAIN Rooms
               /\ ~IsDark(state')) =>
                  Contains(response', Rooms[state'.current_room].long_description)]_vars

\* C17: the first command of a new game, "in", has moved the player into the
\* building for the first time and the response is the short description.
C17_ShortOnFirstVisit ==
    /\ input = <<"in">>
    /\ Elapsed(state) = 1
    /\ state.turns = 1
    /\ state.current_room = 3
    /\ response = <<Rooms[3].short_description>>
    /\ Rooms[3].short_description # Rooms[3].long_description

C20_Malformed ==
    [][(/\ loader.status = "running"
        /\ \/ loader.parser # 0 /\ loader.pos >= Len(loader.file)
           \/ /\ loader.parser = 0 /\ loader.pos < Len(loader.file)
              /\ ~IsNumericHeader(loader.file[loader.pos + 1])) =>
          (loader'.status = "raised" /\ loader'.error = "MalformedDataError")]_vars

\* C20: inside section 8 or 9 at the end of a file without sentinel: the next
\* turn of the read loop leaves everything as it is, and so does every later one.
C20_RunsForever ==
    /\ loader.status = "running"
    /\ loader.parser \in {8, 9}
    /\ loader.pos = Len(loader.file)
    /\ ReadSectionLine(loader) = loader

\* the commands of C21 and the object each one names
OnObject ==
    { <<<<"open", "grate">>, GRATE>>, <<<<"close", "grate">>, GRATE>>,
      <<<<"open", "clam">>, CLAM>>, <<<<"unlock", "chain">>, CHAIN>>,
      <<<<"open", "door">>, DOOR>>,
      <<<<"attack", "dragon">>, DRAGON>>, <<<<"kill", "bird">>, BIRD>>,
      <<<<"feed", "bear">>, BEAR>>, <<<<"feed", "snake">>, SNAKE>> }

\* C21: an open, close, attack or feed command naming an object that is
\* neither carried nor in the current room changes no object location, no
\* object property and no flag.
C21_AbsentObject ==
    [][(Called /\ HandlerRuns(state)) =>
          \A t \in OnObject :
              LET ev == AfterTicks(state)
                  loc == ev.object_locations[t[2]]
              IN  (input' = t[1] /\ loc # CARRIED /\ loc # ev.current_room) =>
                      state' = ev]_vars

\* C21: "attack dragon" typed at the end of the road, far from the dragon,
\* has killed it and brought the rug to the player.
C21_KilledFromAfar ==
    /\ input = <<"attack", "dragon">>
    /\ state.current_room = 1
    /\ Elapsed(state) = 1
    /\ GetIs(state.object_props, DRAGON, 1)
    /\ GetIs(state.object_locations, 62, 1)

\* C22: once the pirate is triggered in the player's room, every carried
\* treasure and the chest are moved to the stash room 64 and the pirate's
\* location becomes room 64.
C22_PirateSteals ==
    [][(Called /\ HandlerRuns(state)) =>
          LET ev == AfterTicks(state)
              loot == {o \in TreasureIds : ev.object_locations[o] = CARRIED}
          IN  (ev.pirate_seen /\ ev.pirate_location = ev.current_room /\ loot # {}) =>
                  /\ \A o \in loot : state'.object_locations[o] = 64
                  /\ state'.object_locations[CHEST] = 64
                  /\ state'.pirate_location = 64]_vars

\* C22: a command has been handled with the pirate in the room, and the
\* player still carries the nugget.
C22_NothingStolen ==
    /\ Elapsed(state) = 1
    /\ state.turns > 4 * TurnBase
    /\ state.pirate_seen
    /\ state.pirate_location = state.current_room
    /\ GetIs(state.object_locations, NUGGET, CARRIED)

\* C23: a move into a room numbered 15 or higher while the dwarf stage is 0
\* makes the dwarf stage 1.
C23_DwarvesArmed ==
    [][(Called /\ HandlerRuns(state) /\ death' = <<>>) =>
          LET ev == AfterTicks(state)
          IN  (/\ ev.dwarf_stage = 0
               /\ state'.current_room # ev.current_room
               /\ state'.current_room >= 15) =>
                  state'.dwarf_stage = 1]_vars

\* C23: "plugh" has taken the player from the building to Y2 (room 33) and
\* the dwarves are still dormant.
C23_StillDormant ==
    /\ input = <<"plugh">>
    /\ state.current_room = 33
    /\ state.old_room = 3
    /\ state.dwarf_stage = 0

\* C24: when cave closing starts, dwarf_locations and dwarf_seen become
\* empty, dwarf_stage becomes 0 and pirate_location becomes 0.
C24_ClosingClears ==
    [][(~state.is_closing /\ ~state.is_closed /\ state'.is_closing) =>
          /\ state'.dwarf_locations = <<>>
          /\ state'.dwarf_seen = <<>>
          /\ state'.dwarf_stage = 0
          /\ state'.pirate_location = 0]_vars

\* C24: closing has started and the five dwarf_seen flags are still there.
C24_SeenKept ==
    /\ state.is_closing
    /\ state.dwarf_locations = <<>>
    /\ state.pirate_location = 0
    /\ Len(state.dwarf_seen) = 5

\* C25: in every World load_world returns, every object numbered 50 or more
\* has is_treasure true, whichever section introduced it.
C25_TreasureFlag ==
    loader.status = "returned" =>
        \A o \in DOMAIN loader.world.objects :
            (IsInt(o) /\ o[2] >= 50) => loader.world.objects[o].is_treasure

\* C25: a file that places object 50 without naming it in the vocabulary has
\* been loaded: the object is there and is not a treasure.
C25_PlacedOnly ==
    /\ loader.status = "returned"
    /\ loader.file = << <<IntField(7)>>, <<IntField(50), IntField(18)>>, <<IntField(-1)>> >>
    /\ loader.world.objects[IntField(50)].initial_rooms = <<IntField(18)>>
    /\ ~loader.world.objects[IntField(50)].is_treasure

\* the verb numbers of the movement words played
VerbOf ==
    { <<<<"out">>, 11>>, <<<<"u">>, 29>>, <<<<"in">>, 19>>, <<<<"plover">>, 71>>,
      <<<<"s">>, 46>>, <<<<"n">>, 45>>, <<<<"sw">>, 49>> }

Holds(s, condition) ==
    CASE condition[1] = "carrying" -> s.object_locations[condition[2]] = CARRIED
      [] condition[1] = "prop!=" ->
            (IF condition[2] \in DOMAIN s.object_props THEN s.object_props[condition[2]] ELSE 0)
                # condition[3]
      [] OTHER -> TRUE

\* the travel-table entries of room s.current_room that verb_n selects and
\* whose condition holds, as indexes in declared order
Eligible(s, verb_n) ==
    LET table == Rooms[s.current_room].travel_table
    IN  {i \in 1..Len(table) :
            /\ (verb_n \in table[i].verbs \/ table[i].is_forced)
            /\ Holds(s, table[i].condition)}

First(S) == CHOOSE i \in S : \A j \in S : i <= j

\* C26: a movement verb takes the first entry, in declared order, of the
\* current room's travel table that has the verb and whose condition holds:
\* the player arrives at that entry's destination (through Y2's plover
\* passage for destination 302, which leaves the emerald behind; through a
\* room of forced moves, which is visited and left again; nowhere when the
\* entry's destination is a message).
C26_FirstEligible ==
    [][(Called /\ HandlerRuns(state) /\ death' = <<>>) =>
          \A t \in VerbOf :
              LET ev == AfterTicks(state)
                  S == Eligible(ev, t[2])
                  table == Rooms[ev.current_room].travel_table
                  dest == table[First(S)].destination
              IN  (input' = t[1] /\ S # {}) =>
                      IF dest < 0
                      THEN state'.current_room = ev.current_room
                      ELSE IF dest = 302
                      THEN /\ state'.current_room = 33
                           /\ state'.object_locations[EMERALD] # CARRIED
                      ELSE IF StartsForced(dest)
                      THEN /\ dest \in state'.visited_rooms
                           /\ state'.old_room = dest
                      ELSE /\ state'.current_room = dest
                           /\ state'.old_room = ev.current_room
                           /\ state'.object_locations = ev.object_locations]_vars

\* C26: the player has left the plover room carrying the emerald: the first
\* plover entry, which requires the emerald, was taken and the emerald stayed.
C26_Witness ==
    /\ input = <<"plover">>
    /\ state.current_room = 33
    /\ state.old_room = 100
    /\ Elapsed(state) = 2
    /\ GetIs(state.object_locations, EMERALD, 100)
    /\ GetIs(state.object_props, EMERALD, 0)

\* C27: a movement command that selects a move with a negative destination,
\* or finds no matching move, leaves current_room, old_room, old_old_room and
\* visited_rooms unchanged; the response is the referenced message, or
\* "You can't go that way." when nothing matches.
C27_NoMovement ==
    [][(Called /\ HandlerRuns(state)) =>
          \A t \in VerbOf :
              LET ev == AfterTicks(state)
                  S == Eligible(ev, t[2])
                  table == Rooms[ev.current_room].travel_table
              IN  (input' = t[1] /\ (S = {} \/ table[First(S)].destination < 0)) =>
                      /\ state'.current_room = state.current_room
                      /\ state'.old_room = state.old_room
                      /\ state'.old_old_room = state.old_old_room
                      /\ state'.visited_rooms = state.visited_rooms
                      /\ response' = IF S = {} THEN <<"You can't go that way.">>
                                     ELSE <<Messages[-table[First(S)].destination]>>]_vars

\* C27: below the locked grate, where the player came from room 8, "u" has
\* been answered with message 93 and the player has not moved.
C27_Witness ==
    /\ state.current_room = 9
    /\ state.old_room = 8
    /\ state.old_old_room = 1
    /\ state.visited_rooms = {1, 8, 9}
    /\ GetIs(state.object_props, GRATE, 0)
    /\ input = <<"u">>
    /\ response = <<"You can't go through a locked steel grate!">>

\* C27: in the plover room "n", which no entry lists, has been answered
\* "You can't go that way." and the player has not moved.
C27_NoMatch ==
    /\ state.current_room = 100
    /\ state.old_room = 33
    /\ state.old_old_room = 3
    /\ state.visited_rooms = {1, 3, 33, 100}
    /\ input = <<"n">>
    /\ response = <<"You can't go that way.">>

\* C28: "foo" relocates the eggs to room 92 only when the commands before it
\* were "fee" (or "fum"), "fie", "foe" on consecutive turns: in particular the
\* command immediately before a "foo" that moves the eggs is "foe".
C28_FooAfterFoe ==
    [][(/\ Called
        /\ input' = <<"foo">>
        /\ ~GetIs(state.object_locations, EGGS, 92)
        /\ GetIs(state'.object_locations, EGGS, 92)) => input = <<"foe">>]_vars

\* C28: "foo" on the fourth turn has sent the carried eggs to room 92 although
\* one of the two commands between "fee" and "foo" was "take lamp".
C28_FooByCount ==
    /\ input = <<"foo">>
    /\ response = <<"Done!">>
    /\ Elapsed(state) = 4
    /\ state.foobar = state.turns - 3
    /\ GetIs(state.object_locations, EGGS, 92)
    /\ GetIs(state.object_locations, LAMP, CARRIED)

\* the nouns resolved: names of one object, the name two rods share, and a
\* word that names no object
Nouns == {"rod", "keys", "lamp", "emerald", "EMERALD", "grate", "sword"}

\* the objects other than obj_n that carry the name and are carried or in
\* the player's room
PresentNamesakes(s, noun, obj_n) ==
    {o \in ObjIds \ {obj_n} :
        /\ \E i \in 1..Len(Objects[o].names) : Objects[o].names[i] = noun
        /\ s.object_locations[o] \in {CARRIED, s.current_room}}

\* C29: a noun resolves to its default object when that object is carried or
\* in the player's room; otherwise to another present object of the same
\* name; otherwise to the default; and to nothing only for an unknown name.
C29_ResolveNoun ==
    \A noun \in Nouns :
        LET n == NormalizeWord(noun)
            r == ResolveNoun(state, noun)
        IN  IF n \notin DOMAIN ObjectNames THEN r = {}
            ELSE LET default == ObjectNames[n]
                     here == state.object_locations[default] \in {CARRIED, state.current_room}
                     others == PresentNamesakes(state, n, default)
                 IN  /\ Cardinality(r) = 1
                     /\ here => r = {default}
                     /\ (~here /\ others # {}) => r \subseteq others
                     /\ (~here /\ others = {}) => r = {default}

\* C29: "take rod" in the debris room has picked up the black rod there, the
\* default object of the name being the absent second rod.
C29_Witness ==
    /\ input = <<"take", "rod">>
    /\ response = <<"OK.">>
    /\ ObjectNames["rod"] = ROD2
    /\ state.object_locations[ROD] = CARRIED
    /\ state.object_locations[ROD2] \notin {CARRIED, state.current_room}
    /\ ResolveNoun(state, "rod") = {ROD}

\* C30: a travel code y, with m = y div 1000 and n = y mod 1000, is decoded
\* into the condition Unconditional for m = 0, PercentChance(m) for 1..99,
\* NotDwarf for 100, Carrying(m mod 100) for 101..200,
\* CarryingOrInRoomWith(m mod 100) for 201..300 and
\* PropNotEqual(m mod 100, m div 100 - 3) above 300, and into the destination
\* n when n <= 500 and -(n - 500) otherwise.
C30_Decoded ==
    \A k \in 1..loader.pos :
        LET row == loader.rows[k]
            y == row[2][2]
            m == y \div 1000
            n == y % 1000
            move == loader.world.rooms[row[1]].travel_table[k]
        IN  /\ m = 0 => move.condition = <<"none">>
            /\ m \in 1..99 => move.condition = <<"%", m>>
            /\ m = 100 => move.condition = <<"not_dwarf">>
            /\ m \in 101..200 => move.condition = <<"carrying", m % 100>>
            /\ m \in 201..300 => move.condition = <<"carrying_or_in_room_with", m % 100>>
            /\ m > 300 => move.condition = <<"prop!=", m % 100, (m \div 100) - 3>>
            /\ n <= 500 => move.destination = n
            /\ n > 500 => move.destination = 500 - n

\* C30: the rows 200999 and 311028 have been parsed into "carrying object 0,
\* message 499" and "prop of object 11 is not 0, room 28".
C30_Witness ==
    /\ loader.pos = 2
    /\ loader.rows[1][2] = IntField(200999)
    /\ loader.rows[2][2] = IntField(311028)
    /\ loader.world.rooms[IntField(9)].travel_table[1].condition = Carrying(0)
    /\ loader.world.rooms[IntField(9)].travel_table[1].destination = -499
    /\ loader.world.rooms[IntField(9)].travel_table[2].condition = PropNotEqual(11, 0)
    /\ loader.world.rooms[IntField(9)].travel_table[2].destination = 28

\* C31: a section 9 row for bit 1 makes each room it lists a water source
\* (liquid is the water object, 21) and a row for bit 2 makes each room it
\* lists an oil source (liquid is the oil object, 22).
C31_LiquidSources ==
    [][(/\ loader.status = "running"
        /\ loader.parser = 9
        /\ loader.pos < Len(loader.file)
        /\ Len(loader.file[loader.pos + 1]) >= 2
        /\ loader.file[loader.pos + 1][1] \in {IntField(1), IntField(2)}) =>
          LET row == loader.file[loader.pos + 1]
          IN  \A i \in 2..Len(row) :
                  loader'.world.rooms[row[i]].liquid =
                      <<IF row[1] = IntField(1) THEN WATER ELSE OIL>>]_vars

\* C31: a file whose only flag row is "1 3" has been loaded: room 3 holds
\* object 22, the oil, as its liquid.
C31_WaterIsOil ==
    /\ loader.status = "returned"
    /\ loader.file = << <<IntField(9)>>, <<IntField(1), IntField(3)>>, <<IntField(-1)>> >>
    /\ loader.world.rooms[IntField(3)].liquid = <<OIL>>
    /\ OIL = 22

\* the line number of the first -1 sentinel of file after line pos, or 0
SentinelAfter(file, pos) ==
    LET at == {j \in (pos + 1)..Len(file) : file[j] = <<IntField(-1)>>}
    IN  IF at = {} THEN 0 ELSE CHOOSE j \in at : \A k \in at : j <= k

\* C32: at the header of a section it has no parser for, load_world consumes
\* the lines of that section up to its -1 sentinel, changes nothing in the
\* World and goes on with the next section header.
C32_SkipsUnknown ==
    [][(/\ loader.status = "running"
        /\ loader.parser = 0
        /\ loader.pos < Len(loader.file)
        /\ IsNumericHeader(loader.file[loader.pos + 1])
        /\ loader.file[loader.pos + 1][1][2] > 12
        /\ SentinelAfter(loader.file, loader.pos + 1) # 0) =>
          /\ loader'.status = "running"
          /\ loader'.parser = 0
          /\ loader'.world = loader.world
          /\ loader'.pos = SentinelAfter(loader.file, loader.pos + 1)]_vars

\* C32: the file "13", "1 Hello", "-1" has been read: the data line of the
\* unknown section was taken for a section header and int() raised.
C32_ReadAsHeader ==
    /\ loader.file = << <<IntField(13)>>, <<IntField(1), StrField("Hello")>>, <<IntField(-1)>> >>
    /\ loader.status = "raised"
    /\ loader.error = "ValueError"
    /\ loader.pos = 2

\* the turn count of the player's saved game, 0 without one
SavedTurns(rows) == IF rows = NoSavedGame THEN 0 ELSE rows[1].turns

\* C33: command requests of one player are serialised: each request that
\* processes a command saves without failing and leaves a saved turn count
\* one higher than the one it found, so that two overlapping requests add 2.
C33_Serialised ==
    [][\A r \in RequestIds :
          (/\ requests[r].pc = "loaded"
           /\ requests'[r].pc # "loaded"
           /\ ~requests[r].state.is_finished) =>
              /\ requests'[r].pc = "saved"
              /\ SavedTurns(saved') = SavedTurns(saved) + 1]_vars

\* C33: two requests have loaded the same saved game, each has processed a
\* command and saved, and the saved turn count is one more than before.
C33_LostUpdate ==
    /\ requests[1].pc = "saved"
    /\ requests[2].pc = "saved"
    /\ requests[1].state.turns = TurnBase + 1
    /\ requests[2].state.turns = TurnBase + 1
    /\ SavedTurns(saved) = TurnBase + 1

\* C33: two requests of a player without saved game have both started a
\* fresh game; the second to save has failed on the unique player_id.
C33_SecondInsertFails ==
    /\ \E r \in RequestIds : requests[r].pc = "failed"
    /\ \E r \in RequestIds : requests[r].pc = "saved"
    /\ response = <<INTEGRITY_ERROR>>

\* C34: the lamp_on flag and the lamp's property agree: lamp_on is true
\* exactly when object_props[LAMP] is 1.
C34_LampAgrees == state.lamp_on <=> GetIs(state.object_props, LAMP, 1)

\* C34: the player of a fresh game has lit the lamp in the building, gone to
\* the debris room without it and died there in the dark: the flag is off and
\* the lamp's property is still 1.
C34_FlagOffPropOn ==
    /\ state.deaths = 1
    /\ state.turns = 4
    /\ ~state.lamp_on
    /\ GetIs(state.object_props, LAMP, 1)
    /\ GetIs(state.object_locations, LAMP, 3)

\* C35: lamp_turns is never negative; after every call of handle_command the
\* lamp is on only if lamp_turns is above 0; and a lamp with 0 turns left
\* stays off as long as the cave has not closed.
C35_LampLife ==
    /\ [](state.lamp_turns >= 0 /\ (state.lamp_on => state.lamp_turns > 0))
    /\ [][(state.lamp_turns = 0 /\ ~state'.is_closed) =>
             (~state'.lamp_on /\ state'.lamp_turns = 0)]_vars

\* C35: the lamp at hand has run out and "on" has been refused.
C35_Witness ==
    /\ input = <<"on">>
    /\ response = <<"Your lamp has run out of power.">>
    /\ IsHere(state, LAMP)
    /\ state.lamp_turns = 0
    /\ ~state.lamp_on

\* C36: the player carries at most 7 objects: no take, fill or special
\* capture raises the number of CARRIED objects above 7.
C36_CarryLimit == CarriedCount(state) <= 7

\* C36: with seven objects in hand, the bottle among them, "take water" at
\* the spring has made the water the eighth.
C36_EightCarried ==
    /\ input = <<"take", "water">>
    /\ response = <<"Your bottle is now full.">>
    /\ Elapsed(state) = 1
    /\ state.object_locations[WATER] = CARRIED
    /\ CarriedCount(state) = 8

\* C37: is_closing and is_closed are never both true, and once is_closed is
\* true it stays true and is_closing stays false under every later command.
C37_ClosedForGood ==
    /\ [](~(state.is_closing /\ state.is_closed))
    /\ [][state.is_closed => (state'.is_closed /\ ~state'.is_closing)]_vars

\* C37: the cave has closed and the player has since walked to the other end
\* of the repository.
C37_Witness ==
    /\ state.is_closed
    /\ ~state.is_closing
    /\ input = <<"sw">>
    /\ state.current_room = 116
    /\ state.old_room = 115

\* C38: with the 15 treasures (objects 50 to 64), calculate_score is at most
\* 350, the maximum the score and quit responses announce.
C38_ScoreBound ==
    /\ Cardinality(TreasureIds) = 15
    /\ CalculateScore(state) <= 350

\* C38: every treasure lies in the building, the cave has closed and the
\* player has blasted from the far end for the full bonus.
C38_Witness ==
    /\ \A o \in TreasureIds : GetIs(state.object_locations, o, BUILDING)
    /\ state.is_closed
    /\ state.bonus = 133
    /\ state.deaths = 0
    /\ ~state.gave_up
    /\ CalculateScore(state) = 350

\* C39: the end of the game is terminal: a call of handle_command never turns
\* is_finished from true to false, and the death counter never exceeds
\* max_deaths, so the survival part of the score is never negative.
C39_Terminal ==
    /\ [](state.deaths <= state.max_deaths)
    /\ [][Called /\ state.is_finished => state'.is_finished]_vars

\* C39: the game is over and a further move in the dark has killed the player
\* a fourth time: the survival part of the score is -10.
C39_DiedAgain ==
    /\ state.is_finished
    /\ state.deaths = state.max_deaths + 1
    /\ (state.max_deaths - state.deaths) * 10 < 0
    /\ death # <<>>
    /\ death[1].is_finished

\* C40: save() never tries to insert a second SavedGame row for a player who
\* has one: every request that saves succeeds and leaves exactly one row, the
\* request after a finished game was saved included, which starts afresh.
C40_OneSavedGame ==
    [][/\ response' # <<INTEGRITY_ERROR>>
       /\ Len(saved') = 1
       /\ (saved # NoSavedGame /\ saved[1].is_finished) =>
             /\ input' = <<"/play">> => state' = NewGameState
             /\ saved'[1] = SavedGame(state')]_vars

\* C40: the row of the finished game is still the player's only row and the
\* save() of the next request, which started afresh, raised on the insert.
C40_InsertRaised ==
    /\ saved # NoSavedGame
    /\ saved[1].is_finished
    /\ ~state.is_finished
    /\ response = <<INTEGRITY_ERROR>>
    /\ saved[1] # SavedGame(state)

====
